---------------------------- MODULE Spec2Model ----------------------------
(***************************************************************************)
(* A model of the Secure DFU driver of nrf52_ble_dfu                       *)
(* (src/nrf52_ble_dfu/protocol/secure.py): the SecureDFUContext, the ten   *)
(* state handlers and the run() loop of SecureDFUManager, together with    *)
(* the peer bootloader and the notification callback they talk to.         *)
(*                                                                         *)
(* A Python exception is a record [type, code]; "None" stands for Python's *)
(* None.  32-bit CRC values are pairs <<hi, lo>> of 16-bit halves, because *)
(* the integers of TLC are 32-bit signed.                                  *)
(***************************************************************************)
EXTENDS Integers, Sequences, FiniteSets, TLC

(***************************************************************************)
(* Bounds of the model.                                                    *)
(***************************************************************************)
\* the peripheral is found by a scan at most this many times in one run
MaxClients == 2
\* a scan that follows more than this many failed scans of one search fails too
MaxMisses == 1

(***************************************************************************)
(* Program constants.                                                      *)
(***************************************************************************)
MAX_ATTEMPTS  == 10
DEFAULT_PRN   == 10
GATT_PKT_SIZE == 20
MAX_CRC_ATTEMPTS == 3

\* SecureDFUOpcode
OBJECT_CREATE     == 1
RECEIPT_NOTIF_SET == 2
CRC_GET           == 3
OBJECT_EXECUTE    == 4
OBJECT_SELECT     == 6

\* SecureDFUProcedureType
INVALID == 0
COMMAND == 1
DATA    == 2

\* SecureDFUResultCode
RES_INVALID        == 0
SUCCESS            == 1
EXTENDED_ERROR     == 11
ResultCodes == {0, 1, 2, 3, 4, 5, 7, 8, 10, 11}

\* DFURemoteErrorCode.SECURE, and the local DFUErrorCode values the driver raises
SECURE_OFFSET     == 10
FAILED_TO_CONNECT == 201
BYTES_LOST        == 308
CRC_ERROR         == 309

(***************************************************************************)
(* Exceptions.                                                             *)
(***************************************************************************)
NoError == [type |-> "None", code |-> 0]
DFUError(code) == [type |-> "DFUError", code |-> code]
PyError(type) == [type |-> type, code |-> 0]

(***************************************************************************)
(* zlib.crc32 (CRC-32, reflected polynomial 0xEDB88320), table driven, on  *)
(* 16-bit halves.                                                          *)
(***************************************************************************)
RECURSIVE XorBits(_, _)
XorBits(a, b) ==
  IF a = 0 THEN b
  ELSE IF b = 0 THEN a
  ELSE ((a + b) % 2) + 2 * XorBits(a \div 2, b \div 2)

\* exclusive or of two 16-bit numbers, a nibble at a time
XorNibble == [a \in 0..15 |-> [b \in 0..15 |-> XorBits(a, b)]]
Xor(a, b) ==
  XorNibble[a % 16][b % 16]
  + 16 * XorNibble[(a \div 16) % 16][(b \div 16) % 16]
  + 256 * XorNibble[(a \div 256) % 16][(b \div 256) % 16]
  + 4096 * XorNibble[a \div 4096][b \div 4096]

Xor32(x, y) == <<Xor(x[1], y[1]), Xor(x[2], y[2])>>
Shr1(x) == <<x[1] \div 2, (x[2] \div 2) + 32768 * (x[1] % 2)>>
Shr8(x) == <<x[1] \div 256, (x[2] \div 256) + 256 * (x[1] % 256)>>
Not32(x) == <<65535 - x[1], 65535 - x[2]>>
CRC_POLY == <<60856, 33568>>   \* 0xEDB8, 0x8320
CRC_ZERO == <<0, 0>>

RECURSIVE CrcBits(_, _)
CrcBits(c, k) ==
  IF k = 0 THEN c
  ELSE CrcBits(IF c[2] % 2 = 1 THEN Xor32(CRC_POLY, Shr1(c)) ELSE Shr1(c), k - 1)

CrcTable == [n \in 0..255 |-> CrcBits(<<0, n>>, 8)]

\* one byte of the table-driven update
CrcByte(c, b) == Xor32(CrcTable[Xor(c[2] % 256, b)], Shr8(c))

\* the update over data[lo..hi], in halves; the left half is computed (the
\* test forces it) before the right half starts, which keeps evaluation shallow
RECURSIVE CrcUpdate(_, _, _, _)
CrcUpdate(c, data, lo, hi) ==
  IF lo > hi THEN c
  ELSE IF lo = hi THEN CrcByte(c, data[lo])
  ELSE LET mid  == (lo + hi) \div 2
           left == CrcUpdate(c, data, lo, mid)
       IN  IF left[1] >= 0 THEN CrcUpdate(left, data, mid + 1, hi) ELSE left

\* crc32(data, value): the running CRC of value extended by data
crc32(data, value) == Not32(CrcUpdate(Not32(value), data, 1, Len(data)))

(***************************************************************************)
(* Python slices of a byte sequence.                                       *)
(***************************************************************************)
Min(a, b) == IF a <= b THEN a ELSE b
\* s[:n]
Prefix(s, n) == SubSeq(s, 1, Min(n, Len(s)))
\* s[n:]
Suffix(s, n) == SubSeq(s, Min(n, Len(s)) + 1, Len(s))

(***************************************************************************)
(* The update package (DFUPackage.images): image name -> DFUImage.  The    *)
(* packages tried hold any subset of the three image names; every image of *)
(* a package has the init and image lengths of one shape, and its own      *)
(* bytes.                                                                  *)
(***************************************************************************)
ImageOrder == <<"bootloader", "softdevice", "application">>
ImageNames == {ImageOrder[i] : i \in 1..Len(ImageOrder)}
Shapes == { <<1, 20>>, <<140, 300>> }
Seed(name) == CASE name = "bootloader" -> 11 [] name = "softdevice" -> 53 [] OTHER -> 97
Bytes(seed, n) == [i \in 1..n |-> (i * 7 + seed) % 256]
DFUImage(name, shape) ==
  [img_type  |-> name,
   init_data |-> Bytes(Seed(name), shape[1]),
   img_data  |-> Bytes(Seed(name) + 100, shape[2])]
DFUPackage(names, shape) == [n \in names |-> DFUImage(n, shape)]
Packages == { DFUPackage(names, shape) : names \in SUBSET ImageNames, shape \in Shapes }

(***************************************************************************)
(* The wire format of notifications (models/secure.py).  A frame is a      *)
(* sequence of bytes; a uint32 field is held as <<high 16 bits, low 16     *)
(* bits>>, like a CRC.  A field the decoder leaves None is <<>>.           *)
(***************************************************************************)
RESPONSE == 96

\* the values SecureDFUOpcode(x) accepts; any other raises ValueError
SecureDFUOpcode == {0, 1, 2, 3, 4, 6, 7, 8, 9, 10, 11, 12, RESPONSE}

\* the members of SecureDFUExtendedErrorCode: value |-> name
SecureDFUExtendedErrorCode ==
  [c \in {0, 3, 4, 5, 6, 7, 9, 10, 11, 12, 13} |->
     CASE c = 0  -> "NO_ERROR"
       [] c = 3  -> "UNKNOWN_COMMAND"
       [] c = 4  -> "INIT_COMMAND_INVALID"
       [] c = 5  -> "FW_VERSION_FAILURE"
       [] c = 6  -> "HW_VERSION_FAILURE"
       [] c = 7  -> "SD_VERSION_FAILURE"
       [] c = 9  -> "WRONG_HASH_TYPE"
       [] c = 10 -> "HASH_FAILED"
       [] c = 11 -> "WRONG_SIGNATURE_TYPE"
       [] c = 12 -> "VERIFICATION_FAILED"
       [] c = 13 -> "INSUFFICIENT_SPACE"]

\* the members of DFUErrorCode that extended errors are looked up in: name |-> code
DFUErrorCode ==
  [REMOTE_SECURE_DFU_SUCCESS                  |-> 11,
   REMOTE_EXTENDED_ERROR_UNKNOWN_COMMAND      |-> 23,
   REMOTE_EXTENDED_ERROR_INIT_COMMAND_INVALID |-> 24,
   REMOTE_EXTENDED_ERROR_FW_VERSION_FAILURE   |-> 25,
   REMOTE_EXTENDED_ERROR_HW_VERSION_FAILURE   |-> 26,
   REMOTE_EXTENDED_ERROR_SD_VERSION_FAILIRE   |-> 27,
   REMOTE_EXTENDED_ERROR_WRONG_HASH_TYPE      |-> 29,
   REMOTE_EXTENDED_ERROR_HASH_FAILED          |-> 30,
   REMOTE_EXTENDED_ERROR_WRONG_SIGNATURE_TYPE |-> 31,
   REMOTE_EXTENDED_ERROR_VERIFICATION_FAILED  |-> 32,
   REMOTE_EXTENDED_ERROR_INSUFFICIENT_SPACE   |-> 33]

\* SecureDFUExtendedErrorCode.error: the DFUError of the member, or the
\* exception the lookup by name raises
SecureDFUExtendedErrorCode_error(c) ==
  IF c = 0 THEN DFUError(DFUErrorCode["REMOTE_SECURE_DFU_SUCCESS"])
  ELSE LET key == "REMOTE_EXTENDED_ERROR_" \o SecureDFUExtendedErrorCode[c]
       IN  IF key \in DOMAIN DFUErrorCode THEN DFUError(DFUErrorCode[key])
           ELSE PyError("KeyError")

\* int.from_bytes(b, 'little') of four bytes
int_from_bytes(b) == <<b[3] + 256 * b[4], b[1] + 256 * b[2]>>

\* int.to_bytes(4, 'little')
int_to_bytes(v) == <<v[2] % 256, v[2] \div 256, v[1] % 256, v[1] \div 256>>

None == <<>>

\* nothing decoded yet
Undecoded ==
  [by |-> "None", exc |-> NoError, opcode |-> 0, req_opcode |-> 0, status |-> 0,
   max_size |-> None, offset |-> None, crc |-> None, error |-> 0]

\* the constructor of class by raised e
DecodeFailed(by, e) == [Undecoded EXCEPT !.by = by, !.exc = e]

\* the object the constructor of class by made from frame d
DecodedAs(by, d, max_size, offset, crc) ==
  [by |-> by, exc |-> NoError, opcode |-> d[1], req_opcode |-> d[2], status |-> d[3],
   max_size |-> max_size, offset |-> offset, crc |-> crc, error |-> 0]

\* the EXTENDED_ERROR branch of both constructors: int.from_bytes is given
\* data[3], an int, and raises TypeError
DecodeExtended(by, d) ==
  IF Len(d) < 4 THEN DecodeFailed(by, PyError("AssertionError"))
  ELSE DecodeFailed(by, PyError("TypeError"))

\* SecureDFUResponse.__init__
SecureDFUResponse(d) ==
  LET by == "SecureDFUResponse"
  IN  IF Len(d) < 3 THEN DecodeFailed(by, PyError("AssertionError"))
      ELSE IF d[1] \notin SecureDFUOpcode THEN DecodeFailed(by, PyError("ValueError"))
      ELSE IF d[1] # RESPONSE THEN DecodeFailed(by, PyError("AssertionError"))
      ELSE IF d[2] \notin SecureDFUOpcode THEN DecodeFailed(by, PyError("ValueError"))
      ELSE IF d[3] \notin ResultCodes THEN DecodeFailed(by, PyError("ValueError"))
      ELSE IF d[3] = EXTENDED_ERROR THEN DecodeExtended(by, d)
      ELSE IF d[3] # SUCCESS THEN DecodedAs(by, d, None, None, None)
      ELSE IF d[2] = OBJECT_SELECT
      THEN IF Len(d) < 15 THEN DecodeFailed(by, PyError("AssertionError"))
           ELSE DecodedAs(by, d, int_from_bytes(SubSeq(d, 4, 7)),
                          int_from_bytes(SubSeq(d, 8, 11)),
                          int_from_bytes(SubSeq(d, 12, 15)))
      ELSE IF d[2] = CRC_GET
      THEN IF Len(d) < 11 THEN DecodeFailed(by, PyError("AssertionError"))
           ELSE DecodedAs(by, d, None, int_from_bytes(SubSeq(d, 4, 7)),
                          int_from_bytes(SubSeq(d, 8, 11)))
      ELSE DecodedAs(by, d, None, None, None)

\* SecureDFUPacketReceiptNotification.__init__
SecureDFUPacketReceiptNotification(d) ==
  LET by == "SecureDFUPacketReceiptNotification"
  IN  IF Len(d) < 3 THEN DecodeFailed(by, PyError("AssertionError"))
      ELSE IF d[1] \notin SecureDFUOpcode THEN DecodeFailed(by, PyError("ValueError"))
      ELSE IF d[2] \notin SecureDFUOpcode THEN DecodeFailed(by, PyError("ValueError"))
      ELSE IF d[3] \notin ResultCodes THEN DecodeFailed(by, PyError("ValueError"))
      ELSE IF d[3] = EXTENDED_ERROR THEN DecodeExtended(by, d)
      ELSE IF d[3] # SUCCESS THEN DecodedAs(by, d, None, None, None)
      ELSE IF Len(d) < 11 THEN DecodeFailed(by, PyError("AssertionError"))
      ELSE DecodedAs(by, d, None, int_from_bytes(SubSeq(d, 4, 7)),
                     int_from_bytes(SubSeq(d, 8, 11)))

\* the frames decoded: every kind of first byte, request opcode and result
\* code, followed by nothing, too little, a sub-code, two or three uint32
\* fields, or fields and a byte more
FrameHeads ==
  { <<o, r, s>> : o \in {RESPONSE, CRC_GET, 97},
                  r \in {OBJECT_SELECT, CRC_GET, RECEIPT_NOTIF_SET, 13},
                  s \in {SUCCESS, EXTENDED_ERROR, RES_INVALID, 5, 6} }

Words == { <<0, 0, 0, 0>>, <<140, 1, 0, 0>>, <<239, 190, 173, 222>> }

FrameTails ==
  { <<>>, <<1, 2>> }
  \cup { <<e>> : e \in {0, 2, 7, 9} }
  \cup { a \o b : a \in Words, b \in Words }
  \cup { a \o b \o <<9>> : a \in Words, b \in Words }
  \cup { a \o b \o c : a \in Words, b \in Words, c \in Words }

Frames ==
  { <<>>, <<RESPONSE>>, <<RESPONSE, CRC_GET>> }
  \cup { h \o t : h \in FrameHeads, t \in FrameTails }

(***************************************************************************)
(* Loading a package (models/package.py).  An archive is what the loader   *)
(* finds: whether manifest.json is there and has the key `manifest`, and   *)
(* the entries of the manifest in file order; an entry names its image and *)
(* says whether it has the keys bin_file and dat_file and whether the      *)
(* members they name are in the archive.                                   *)
(***************************************************************************)
Entry(target, bin_key, dat_key, bin_member, dat_member) ==
  [target |-> target, bin_key |-> bin_key, dat_key |-> dat_key,
   bin_member |-> bin_member, dat_member |-> dat_member]

\* an entry in order, and an entry with one thing missing
Entries(target) ==
  { Entry(target, TRUE, TRUE, TRUE, TRUE),
    Entry(target, FALSE, TRUE, TRUE, TRUE),
    Entry(target, TRUE, FALSE, TRUE, TRUE),
    Entry(target, TRUE, TRUE, FALSE, TRUE),
    Entry(target, TRUE, TRUE, TRUE, FALSE) }

AllEntries == UNION { Entries(t) : t \in ImageNames }

Manifests ==
  { <<>> }
  \cup { <<e>> : e \in AllEntries }
  \cup { m \in { <<e, f>> : e \in AllEntries, f \in AllEntries } :
           m[1].target # m[2].target }

Archives ==
  { [manifest_json |-> j, manifest_key |-> k, manifest |-> m] :
      j \in BOOLEAN, k \in BOOLEAN, m \in Manifests }

NotLoaded == [exc |-> NoError, images |-> <<>>, done |-> FALSE]

\* the loop over self.manifest.items(): the images loaded so far, until an
\* entry raises
RECURSIVE LoadEntries(_, _)
LoadEntries(manifest, images) ==
  IF manifest = <<>> THEN [exc |-> NoError, images |-> images, done |-> TRUE]
  ELSE LET e == Head(manifest)
       IN  IF ~e.bin_key \/ ~e.dat_key
           THEN [exc |-> PyError("AssertionError"), images |-> <<>>, done |-> TRUE]
           ELSE IF ~e.bin_member \/ ~e.dat_member
           THEN [exc |-> PyError("FileNotFoundError"), images |-> <<>>, done |-> TRUE]
           ELSE LoadEntries(Tail(manifest),
                            [n \in DOMAIN images \cup {e.target} |->
                               IF n = e.target THEN DFUImage(n, <<1, 20>>) ELSE images[n]])

\* DFUPackage.__init__ on a path that exists and is a zip file
DFUPackage_init(archive) ==
  IF ~archive.manifest_json
  THEN [exc |-> PyError("FileNotFoundError"), images |-> <<>>, done |-> TRUE]
  ELSE IF ~archive.manifest_key
  THEN [exc |-> PyError("KeyError"), images |-> <<>>, done |-> TRUE]
  ELSE LoadEntries(archive.manifest, <<>>)

(***************************************************************************)
(* State.                                                                  *)
(***************************************************************************)
VARIABLES
  pkg,        \* the DFUPackage.images given to SecureDFUManager
  context,    \* SecureDFUContext (its fields, responses queue included)
  cls,        \* class attributes of the handlers: search_attempts,
              \* total_pkts, pkts_sent, object_data
  status,     \* run(): the TxStatus last returned
  pc,         \* "init" | "run" | "set_prn_value" | "get_prn" | "returned" |
              \* "rejected"
  cont,       \* the coroutine suspended in set_prn_value's get_response
  exc,        \* the exception that escaped run() or the constructor
  raised,     \* the exception a hook raised inside the loop of run()
  clients,    \* every SecureDFUClient made: [connected, disconnects]
  remote,     \* the peer bootloader
  pending,    \* notifications the peer owes, not yet handed to the callback
  ctl_log,    \* requests written to the Control Point in the current phase
  pkt_log,    \* packets written to the Packet characteristic, current phase
  deq_log,    \* notifications the driver took from the queue, current phase
  data,       \* the bytes of a notification handed to a decoder
  decoded,    \* what the decoder made of data
  archive,    \* the package archive handed to DFUPackage
  loaded,     \* what DFUPackage made of archive
  tx,         \* the legacy SecureTxManager, its client and its peer
  mode        \* the environment of the run: "honest": every scan finds the
              \* peer, it connects and never deviates; "link": scans and
              \* connects may fail; "proto": the peer's answers may deviate

vars == <<pkg, context, cls, status, pc, cont, exc, raised, clients, remote, pending,
          ctl_log, pkt_log, deq_log, data, decoded, archive, loaded, tx, mode>>

(***************************************************************************)
(* SecureDFUContext.__init__                                               *)
(***************************************************************************)
RECURSIVE Filter(_, _)
Filter(order, present) ==
  IF order = <<>> THEN <<>>
  ELSE (IF Head(order) \in present THEN <<Head(order)>> ELSE <<>>)
       \o Filter(Tail(order), present)

SecureDFUContext(p) ==
  [state        |-> "DISCONNECTED",
   prev_state   |-> "None",
   target       |-> "None",
   img_queue    |-> Filter(ImageOrder, DOMAIN p),
   client       |-> 0,
   responses    |-> <<>>,
   img          |-> "None",
   txdata       |-> <<>>,
   obj_type     |-> INVALID,
   object       |-> <<>>,
   pkt          |-> <<>>,
   prn          |-> 0,
   local_crc    |-> CRC_ZERO,
   bytes_sent   |-> 0,
   objects_sent |-> 0,
   num_objects  |-> 0,
   attempts     |-> 0,
   max_size     |-> 0,
   offset       |-> 0,
   target_crc   |-> CRC_ZERO]

HandlerClasses ==
  [search_attempts |-> 0, total_pkts |-> 0, pkts_sent |-> 0, object_data |-> <<>>]

RemoteIdle ==
  [prn |-> 0, cnt |-> 0, offset |-> 0, crc |-> CRC_ZERO,
   exec_offset |-> 0, exec_crc |-> CRC_ZERO]

\* SecureTxManager(DATA) and the locals of _dat_transfer(client, object_data) at
\* its first iteration, a client with prn 0 and a peer with nothing received.
\* image is the object_data the call was given; sent and executed are the logs
\* of the chunks written by write_pkt and of those the peer has executed
TxStart(object_data) ==
  [state            |-> "BEGINNING_TX",
   image            |-> object_data,
   object_data      |-> object_data,
   data_chunk       |-> <<>>,
   crc              |-> CRC_ZERO,
   retries          |-> 0,
   total_bytes_sent |-> 0,
   max_size         |-> 0,
   err              |-> NoError,
   returned         |-> FALSE,
   prn              |-> 0,
   r_offset         |-> 0,
   r_crc            |-> CRC_ZERO,
   r_exec_offset    |-> 0,
   r_exec_crc       |-> CRC_ZERO,
   sent             |-> <<>>,
   executed         |-> <<>>]

\* no legacy transfer is running
TxIdle == TxStart(<<>>)

\* no frame has been decoded and no archive loaded
Idle ==
  /\ data = <<>> /\ decoded = Undecoded
  /\ archive = [manifest_json |-> TRUE, manifest_key |-> TRUE, manifest |-> <<>>]
  /\ loaded = NotLoaded
  /\ tx = TxIdle

Init ==
  /\ Idle
  /\ pkg \in Packages
  /\ mode \in {"honest", "link", "proto"}
  /\ context = SecureDFUContext(pkg)
  /\ cls = HandlerClasses
  /\ status = "INIT"
  /\ pc = "init"
  /\ cont = "None"
  /\ exc = NoError
  /\ raised = NoError
  /\ clients = <<>>
  /\ remote = RemoteIdle
  /\ pending = <<>>
  /\ ctl_log = <<>>
  /\ pkt_log = <<>>
  /\ deq_log = <<>>

(***************************************************************************)
(* How a handler step ends.                                                *)
(***************************************************************************)
\* the handler returns st to the loop of run()
Return(c, k, st) ==
  /\ context' = c /\ cls' = k /\ status' = st
  /\ pc' = "run" /\ cont' = "None" /\ exc' = exc /\ clients' = clients
  /\ raised' = raised

\* client.disconnect()
disconnect(cl, client) ==
  [cl EXCEPT ![client] = [connected |-> FALSE, disconnects |-> @.disconnects + 1]]

\* the handler raises e: the loop of run() is left through its finally clause,
\* self.context.client.disconnect(), and e escapes run() unless the clause
\* itself raises (client is None)
Raise(c, k, e) ==
  /\ context' = c /\ cls' = k /\ status' = status
  /\ pc' = "returned" /\ cont' = "None"
  /\ raised' = e
  /\ IF c.client = 0
     THEN exc' = PyError("AttributeError") /\ clients' = clients
     ELSE exc' = e /\ clients' = disconnect(clients, c.client)

\* the handler is suspended awaiting a notification
Await(c, k, at, co) ==
  /\ context' = c /\ cls' = k /\ status' = status
  /\ pc' = at /\ cont' = co /\ exc' = exc /\ clients' = clients
  /\ raised' = raised

\* a transition that forgets the state it leaves
transition_NoPrev(c, new_state) == [c EXCEPT !.state = new_state]

\* SecureDFUContext.transition
transition(c, new_state) == [c EXCEPT !.prev_state = c.state, !.state = new_state]

(***************************************************************************)
(* The GATT link and the peer.                                             *)
(***************************************************************************)
Request(opcode, object_type, object_size, prn_value) ==
  [opcode |-> opcode, object_type |-> object_type,
   object_size |-> object_size, prn_value |-> prn_value]

\* what the peer does with a request when it is written
RemoteOnRequest(r, req) ==
  CASE req.opcode = RECEIPT_NOTIF_SET ->
         [r EXCEPT !.prn = req.prn_value, !.cnt = 0]
    [] req.opcode = OBJECT_CREATE ->
         [r EXCEPT !.offset = r.exec_offset, !.crc = r.exec_crc]
    [] OTHER -> r

\* SecureDFUClient.write_ctl: the request reaches the peer, which owes a response
write_ctl(req) ==
  /\ remote' = RemoteOnRequest(remote, req)
  /\ pending' = Append(pending, [prn |-> FALSE, req_opcode |-> req.opcode,
                                 object_type |-> req.object_type,
                                 offset |-> remote.offset, crc |-> remote.crc])
  /\ ctl_log' = Append(ctl_log, req)
  /\ UNCHANGED <<pkt_log, pkg, mode, data, decoded, archive, loaded, tx>>

\* SecureDFUClient.write_pkt: the peer takes the bytes and, after every prn-th
\* packet since the last RECEIPT_NOTIF_SET, owes a Packet Receipt Notification
write_pkt(pkt_data) ==
  LET off == remote.offset + Len(pkt_data)
      crc == crc32(pkt_data, remote.crc)
      due == remote.prn > 0 /\ remote.cnt + 1 = remote.prn
  IN  /\ remote' = [remote EXCEPT !.offset = off, !.crc = crc,
                                  !.cnt = IF due THEN 0 ELSE remote.cnt + 1]
      /\ pending' = IF due
                    THEN Append(pending, [prn |-> TRUE, req_opcode |-> CRC_GET,
                                          object_type |-> INVALID,
                                          offset |-> off, crc |-> crc])
                    ELSE pending
      /\ pkt_log' = Append(pkt_log, pkt_data)
      /\ UNCHANGED <<ctl_log, pkg, mode, data, decoded, archive, loaded, tx>>

\* nothing is written
NoWrite ==
  UNCHANGED <<remote, pending, ctl_log, pkt_log, pkg, mode, data, decoded, archive, loaded, tx>>

\* a phase starts: the logs start empty
NewPhase ==
  /\ ctl_log' = <<>> /\ pkt_log' = <<>> /\ deq_log' = <<>>
  /\ UNCHANGED <<remote, pending, pkg, mode, data, decoded, archive, loaded, tx>>

(***************************************************************************)
(* What the peer may answer.  A notification is the decoded frame:         *)
(* [prn, req_opcode, status, max_size, offset, crc].  The peer answers      *)
(* SUCCESS with its true offset and CRC and reports a fresh object on      *)
(* OBJECT_SELECT; in mode "proto" it may also answer every result code, a  *)
(* wrong offset or CRC, and report the payload as partly or fully present. *)
(***************************************************************************)
MaxSizes == {0, 128, 256, 512}
BadCrc(c) == <<c[1], (c[2] + 1) % 65536>>

Notification(p, st, max_size, offset, crc) ==
  [prn |-> p.prn, req_opcode |-> p.req_opcode, status |-> st,
   max_size |-> max_size, offset |-> offset, crc |-> crc]

\* the payload of the phase the driver selects: init_data or img_data of the image
PhasePayload(object_type) ==
  IF context.img = "None" THEN <<>>
  ELSE IF object_type = COMMAND THEN pkg[context.img].init_data
  ELSE pkg[context.img].img_data

\* <<offset, crc>> pairs an OBJECT_SELECT response may report
SelectReports(payload) ==
  IF mode # "proto" THEN { <<0, CRC_ZERO>> }
  ELSE { <<0, CRC_ZERO>>,
         <<Len(payload), crc32(payload, CRC_ZERO)>>,
         <<Len(payload), BadCrc(crc32(payload, CRC_ZERO))>>,
         <<Len(payload) + 1, CRC_ZERO>> }
       \cup { <<k, crc32(Prefix(payload, k), CRC_ZERO)>> : k \in {n \in {80} : n < Len(payload)} }

\* the result codes the peer answers with: one of each kind of outcome
Statuses == IF mode # "proto" THEN {SUCCESS} ELSE {SUCCESS, RES_INVALID, 10, EXTENDED_ERROR}

Answers(p) ==
  { Notification(p, st, 0, 0, CRC_ZERO) : st \in Statuses \ {SUCCESS} }
  \cup
  ( IF p.prn \/ p.req_opcode = CRC_GET
    THEN { Notification(p, SUCCESS, 0, o, c) :
             o \in (IF mode # "proto" THEN {p.offset} ELSE {p.offset, p.offset + 1}),
             c \in (IF mode # "proto" THEN {p.crc} ELSE {p.crc, BadCrc(p.crc)}) }
    ELSE IF p.req_opcode = OBJECT_SELECT
    THEN { Notification(p, SUCCESS, m, oc[1], oc[2]) :
             m \in (IF mode # "proto" THEN MaxSizes \ {0} ELSE MaxSizes),
             oc \in SelectReports(PhasePayload(p.object_type)) }
    ELSE { Notification(p, SUCCESS, 0, 0, CRC_ZERO) } )

\* the peer's state once it has answered
RemoteOnAnswer(r, n) ==
  IF n.prn \/ n.status # SUCCESS THEN r
  ELSE IF n.req_opcode = OBJECT_SELECT
  THEN [r EXCEPT !.offset = n.offset, !.crc = n.crc,
                 !.exec_offset = 0, !.exec_crc = CRC_ZERO]
  ELSE IF n.req_opcode = OBJECT_EXECUTE
  THEN [r EXCEPT !.exec_offset = r.offset, !.exec_crc = r.crc]
  ELSE r

\* ConnectingStateHandler.handle.response_callback: the peer notifies and the
\* callback puts the notification on context.responses
response_callback ==
  /\ pc \in {"run", "set_prn_value", "get_prn"}
  /\ pending # <<>>
  /\ \E n \in Answers(Head(pending)) :
       /\ context' = [context EXCEPT !.responses = Append(@, n)]
       /\ remote' = RemoteOnAnswer(remote, n)
  /\ pending' = Tail(pending)
  /\ UNCHANGED <<data, decoded, archive, loaded, tx>>
  /\ UNCHANGED <<pkg, cls, status, pc, cont, exc, raised, clients, ctl_log, pkt_log,
                 deq_log, mode>>

(***************************************************************************)
(* Decoding and checking a notification.                                   *)
(***************************************************************************)
\* SecureDFUResponse.__init__ / SecureDFUPacketReceiptNotification.__init__:
\* the exception the decoding raises (int.from_bytes of data[3], an int)
Response(n) == IF n.status = EXTENDED_ERROR THEN PyError("TypeError") ELSE NoError

\* SecureDFUResultCode.error: DFUErrorCode["REMOTE_SECURE_DFU_" + name]
ResultError(st) ==
  CASE st = 1  -> DFUError(11)
    [] st = 2  -> DFUError(12)
    [] st = 3  -> DFUError(13)
    [] st = 4  -> DFUError(14)
    [] st = 5  -> DFUError(15)
    [] st = 7  -> DFUError(17)
    [] st = 8  -> DFUError(18)
    [] st = 10 -> DFUError(20)
    [] st = 11 -> DFUError(21)
    [] OTHER   -> PyError("KeyError")

\* a check that lets every result code pass
check_response_AnyResult(n) == NoError

\* check_response
check_response(n) == IF n.status = SUCCESS THEN NoError ELSE ResultError(n.status)

\* get_response or get_prn followed by check_response: what is raised, if anything
Checked(n) == IF Response(n) # NoError THEN Response(n) ELSE check_response(n)

\* the driver takes the oldest notification from the queue
Take(n) == deq_log' = Append(deq_log, [prn |-> n.prn, req_opcode |-> n.req_opcode])
NoTake == UNCHANGED deq_log
Dequeued(c) == [c EXCEPT !.responses = Tail(@)]

(***************************************************************************)
(* run(): dispatch.                                                        *)
(***************************************************************************)
\* a loop that calls the exit hook twice
exit_Twice(c) ==
  IF c.prev_state = "TRANSFERRING_OBJECT" THEN [c EXCEPT !.attempts = @ + 2] ELSE c

\* TRANSITIONED: prev_state.exit(context), then state.entry(context).  Only
\* TransferringObjectStateHandler overrides exit.
exit(c) ==
  IF c.prev_state = "TRANSFERRING_OBJECT" THEN [c EXCEPT !.attempts = @ + 1] ELSE c

AtEntry(s) == pc = "run" /\ status = "TRANSITIONED" /\ context.state = s
AtHandle(s) == pc = "run" /\ status \in {"INIT", "HANDLED", "IGNORED"} /\ context.state = s

\* SecureDFUManager.__init__
ManagerInit ==
  /\ pc = "init"
  /\ IF DOMAIN pkg = {}
     THEN pc' = "rejected" /\ exc' = PyError("AssertionError")
     ELSE IF "bootloader" \in DOMAIN pkg /\ "application" \in DOMAIN pkg
     THEN pc' = "rejected" /\ exc' = PyError("NameError")
     ELSE pc' = "run" /\ exc' = exc
  /\ UNCHANGED <<data, decoded, archive, loaded, tx>>
  /\ UNCHANGED <<pkg, context, cls, status, cont, raised, clients, remote, pending,
                 ctl_log, pkt_log, deq_log, mode>>

(***************************************************************************)
(* DISCONNECTED, CONNECTING                                                *)
(***************************************************************************)
\* what BleakScanner.find_device_by_name may return
ScanResults ==
  IF mode # "link" THEN {TRUE}
  ELSE IF Len(clients) < MaxClients /\ cls.search_attempts <= MaxMisses
  THEN {TRUE, FALSE} ELSE {FALSE}

\* whether client.connect() leaves the client connected
ConnectResults == IF mode # "link" THEN {TRUE} ELSE {TRUE, FALSE}

DisconnectedEntry ==
  /\ AtEntry("DISCONNECTED")
  /\ Return(exit(context), [cls EXCEPT !.search_attempts = 0], "HANDLED")
  /\ NoWrite /\ NoTake

\* a handle that counts the scans one too far
DisconnectedHandle_OffByOne ==
  /\ AtHandle("DISCONNECTED")
  /\ IF context.img_queue = <<>>
     THEN Return(transition(context, "TRANSFER_DONE"), cls, "TRANSITIONED")
     ELSE \E found \in ScanResults :
            LET k == [cls EXCEPT !.search_attempts = @ + 1]
                c == [context EXCEPT !.target = IF found THEN "device" ELSE "None"]
            IN  IF ~found
                THEN IF k.search_attempts <= MAX_ATTEMPTS
                     THEN Return(c, k, "HANDLED")
                     ELSE Raise(c, k, DFUError(FAILED_TO_CONNECT))
                ELSE Return(transition(c, "CONNECTING"), k, "TRANSITIONED")
  /\ NoWrite /\ NoTake

DisconnectedHandle ==
  /\ AtHandle("DISCONNECTED")
  /\ IF context.img_queue = <<>>
     THEN Return(transition(context, "TRANSFER_DONE"), cls, "TRANSITIONED")
     ELSE \E found \in ScanResults :
            LET k == [cls EXCEPT !.search_attempts = @ + 1]
                c == [context EXCEPT !.target = IF found THEN "device" ELSE "None"]
            IN  IF ~found
                THEN IF k.search_attempts < MAX_ATTEMPTS
                     THEN Return(c, k, "HANDLED")
                     ELSE Raise(c, k, DFUError(FAILED_TO_CONNECT))
                ELSE Return(transition(c, "CONNECTING"), k, "TRANSITIONED")
  /\ NoWrite /\ NoTake

\* a new SecureDFUClient and its connect(); the link of the new client starts idle
ConnectingEntry ==
  /\ AtEntry("CONNECTING")
  /\ \E connected \in ConnectResults :
       clients' = Append(clients, [connected |-> connected, disconnects |-> 0])
  /\ context' = [exit(context) EXCEPT !.client = Len(clients) + 1]
  /\ status' = "HANDLED"
  /\ UNCHANGED <<cls, pc, cont, exc, raised>>
  /\ remote' = RemoteIdle /\ pending' = <<>>
  /\ ctl_log' = <<>> /\ pkt_log' = <<>> /\ deq_log' = <<>>
  /\ UNCHANGED <<pkg, mode, data, decoded, archive, loaded, tx>>

ConnectingHandle ==
  /\ AtHandle("CONNECTING")
  /\ IF clients[context.client].connected
     THEN Return(transition(context, "TRANSFER_READY"), cls, "TRANSITIONED")
     ELSE Return(transition(context, "DISCONNECTED"), cls, "TRANSITIONED")
  /\ NoWrite /\ NoTake

(***************************************************************************)
(* TRANSFER_READY, PREPARING_DATA_OBJECT                                   *)
(***************************************************************************)
TransferReadyEntry ==
  /\ AtEntry("TRANSFER_READY")
  /\ Return(exit(context), cls, "HANDLED")
  /\ NoWrite /\ NoTake

\* a handle that starts the COMMAND phase without setting attempts back to 0
TransferReadyHandle_KeepAttempts ==
  /\ AtHandle("TRANSFER_READY")
  /\ LET img_type == context.img_queue[1]
         c == [context EXCEPT !.bytes_sent = 0, !.local_crc = CRC_ZERO,
                              !.img = img_type, !.obj_type = COMMAND,
                              !.txdata = pkg[img_type].init_data,
                              !.objects_sent = 0, !.num_objects = 0]
     IN  Return(transition(c, "SELECT_OBJECT"), cls, "TRANSITIONED")
  /\ NewPhase

TransferReadyHandle ==
  /\ AtHandle("TRANSFER_READY")
  /\ LET img_type == context.img_queue[1]
         c == [context EXCEPT !.bytes_sent = 0, !.local_crc = CRC_ZERO,
                              !.img = img_type, !.obj_type = COMMAND,
                              !.txdata = pkg[img_type].init_data,
                              !.objects_sent = 0, !.num_objects = 0, !.attempts = 0]
     IN  Return(transition(c, "SELECT_OBJECT"), cls, "TRANSITIONED")
  /\ NewPhase

PreparingDataObjectEntry ==
  /\ AtEntry("PREPARING_DATA_OBJECT")
  /\ Return(exit(context), cls, "HANDLED")
  /\ NoWrite /\ NoTake

\* a handle that starts the DATA phase without setting bytes_sent back to 0
PreparingDataObjectHandle_NoReset ==
  /\ AtHandle("PREPARING_DATA_OBJECT")
  /\ LET c == [context EXCEPT !.local_crc = CRC_ZERO,
                              !.obj_type = DATA,
                              !.txdata = pkg[context.img].img_data,
                              !.objects_sent = 0, !.num_objects = 0, !.attempts = 0]
     IN  Return(transition(c, "SELECT_OBJECT"), cls, "TRANSITIONED")
  /\ NewPhase

PreparingDataObjectHandle ==
  /\ AtHandle("PREPARING_DATA_OBJECT")
  /\ LET c == [context EXCEPT !.bytes_sent = 0, !.local_crc = CRC_ZERO,
                              !.obj_type = DATA,
                              !.txdata = pkg[context.img].img_data,
                              !.objects_sent = 0, !.num_objects = 0, !.attempts = 0]
     IN  Return(transition(c, "SELECT_OBJECT"), cls, "TRANSITIONED")
  /\ NewPhase

(***************************************************************************)
(* set_prn_value, clear_prn_value and the requests                         *)
(***************************************************************************)
\* set_prn_value up to its await: prn is set, RECEIPT_NOTIF_SET is written and
\* the caller co is suspended in get_response
set_prn_value(c, k, value, co) ==
  /\ write_ctl(Request(RECEIPT_NOTIF_SET, INVALID, 0, value))
  /\ Await([c EXCEPT !.prn = value], k, "set_prn_value", co)

\* object_select
object_select(c, k) ==
  IF c.prn # 0 \/ c.obj_type = INVALID
  THEN Raise(c, k, PyError("AssertionError")) /\ NoWrite
  ELSE write_ctl(Request(OBJECT_SELECT, c.obj_type, 0, 0)) /\ Return(c, k, "HANDLED")

\* the rest of CreateObjectStateHandler.entry after clear_prn_value
object_create(c0, k) ==
  LET c == [c0 EXCEPT !.object = Prefix(c0.txdata, c0.max_size)]
  IN  IF c.prn # 0 \/ c.obj_type = INVALID \/ Len(c.object) = 0
      THEN Raise(c, k, PyError("AssertionError")) /\ NoWrite
      ELSE /\ write_ctl(Request(OBJECT_CREATE, c.obj_type, Len(c.object), 0))
           /\ Return(c, k, "HANDLED")

\* crc_get
crc_get(c, k) ==
  write_ctl(Request(CRC_GET, INVALID, 0, 0)) /\ Return(c, k, "HANDLED")

\* object_execute
object_execute(c, k) ==
  IF c.prn # 0
  THEN Raise(c, k, PyError("AssertionError")) /\ NoWrite
  ELSE write_ctl(Request(OBJECT_EXECUTE, INVALID, 0, 0)) /\ Return(c, k, "HANDLED")

\* clear_prn_value after its await (the response to RECEIPT_NOTIF_SET(0) is
\* checked), and then the rest of the entry hook that called it
clear_prn_value ==
  /\ pc = "set_prn_value"
  /\ cont \in {"SelectObject.entry", "CreateObject.entry", "ValidateObject.entry"}
  /\ context.responses # <<>>
  /\ LET n == Head(context.responses)
         c == Dequeued(context)
     IN  /\ Take(n)
         /\ IF Checked(n) # NoError
            THEN Raise(c, cls, Checked(n)) /\ NoWrite
            ELSE CASE cont = "SelectObject.entry"   -> object_select(c, cls)
                   [] cont = "CreateObject.entry"   -> object_create(c, cls)
                   [] cont = "ValidateObject.entry" -> crc_get(c, cls)

(***************************************************************************)
(* SELECT_OBJECT                                                           *)
(***************************************************************************)
\* an entry that clears the PRN value only when it is not 0 (force=False)
SelectObjectEntry_NoForce ==
  /\ AtEntry("SELECT_OBJECT")
  /\ NoTake
  /\ IF exit(context).prn = 0
     THEN object_select(exit(context), cls)
     ELSE set_prn_value(exit(context), cls, 0, "SelectObject.entry")

SelectObjectEntry ==
  /\ AtEntry("SELECT_OBJECT")
  /\ set_prn_value(exit(context), cls, 0, "SelectObject.entry")
  /\ NoTake

\* a handle without the test for a payload that is already on the peer
SelectBranch_NoSkip(offset, target_crc, txdata) ==
  IF offset # 0 /\ offset <= Len(txdata)
  THEN (IF offset = Len(txdata) THEN "IndexError" ELSE "TypeError")
  ELSE "CREATE_OBJECT"

\* the three-way test of SelectObjectStateHandler.handle: the next state, or the
\* exception that evaluating crc32(txdata[offset]) raises
SelectBranch(offset, target_crc, txdata) ==
  IF offset = Len(txdata) /\ target_crc = crc32(txdata, CRC_ZERO)
  THEN "EXECUTE_OBJECT"
  ELSE IF offset # 0 /\ offset <= Len(txdata)
  THEN (IF offset = Len(txdata) THEN "IndexError" ELSE "TypeError")
  ELSE "CREATE_OBJECT"

\* a count of the full objects only, without the last, shorter one
NumObjects_Floor(len, max_size) == len \div max_size

\* (len + max_size - 1) // max_size
NumObjects(len, max_size) == (len + max_size - 1) \div max_size

SelectObjectHandle ==
  /\ AtHandle("SELECT_OBJECT")
  /\ context.responses # <<>>
  /\ LET n  == Head(context.responses)
         c0 == Dequeued(context)
         c1 == [c0 EXCEPT !.max_size = n.max_size, !.offset = n.offset,
                          !.target_crc = n.crc]
         len == IF c1.obj_type = COMMAND THEN Len(pkg[c1.img].init_data)
                ELSE Len(pkg[c1.img].img_data)
         c2 == IF c1.num_objects = 0
               THEN [c1 EXCEPT !.num_objects = NumObjects(len, c1.max_size)]
               ELSE c1
         br == SelectBranch(c2.offset, c2.target_crc, c2.txdata)
     IN  /\ Take(n)
         /\ NoWrite
         /\ IF Checked(n) # NoError THEN Raise(c0, cls, Checked(n))
            ELSE IF c1.num_objects = 0 /\ c1.max_size = 0
            THEN Raise(c1, cls, PyError("ZeroDivisionError"))
            ELSE IF br = "EXECUTE_OBJECT"
            THEN Return(transition([c2 EXCEPT !.object = Prefix(c2.txdata, c2.max_size)],
                                   "EXECUTE_OBJECT"), cls, "TRANSITIONED")
            ELSE IF br = "CREATE_OBJECT"
            THEN Return(transition(c2, "CREATE_OBJECT"), cls, "TRANSITIONED")
            ELSE Raise(c2, cls, PyError(br))

(***************************************************************************)
(* CREATE_OBJECT                                                           *)
(***************************************************************************)
\* an entry hook that clears the PRN value whatever it is (force=True)
CreateObjectEntry_AlwaysClear ==
  /\ AtEntry("CREATE_OBJECT")
  /\ NoTake
  /\ set_prn_value(exit(context), cls, 0, "CreateObject.entry")

CreateObjectEntry ==
  /\ AtEntry("CREATE_OBJECT")
  /\ NoTake
  /\ IF exit(context).prn = 0
     THEN object_create(exit(context), cls)
     ELSE set_prn_value(exit(context), cls, 0, "CreateObject.entry")

CreateObjectHandle ==
  /\ AtHandle("CREATE_OBJECT")
  /\ context.responses # <<>>
  /\ LET n == Head(context.responses)
         c == Dequeued(context)
     IN  /\ Take(n)
         /\ NoWrite
         /\ IF Checked(n) # NoError THEN Raise(c, cls, Checked(n))
            ELSE Return(transition(c, "TRANSFERRING_OBJECT"), cls, "TRANSITIONED")

(***************************************************************************)
(* TRANSFERRING_OBJECT                                                     *)
(***************************************************************************)
TransferringObjectEntry ==
  /\ AtEntry("TRANSFERRING_OBJECT")
  /\ set_prn_value(exit(context), cls, DEFAULT_PRN, "TransferringObject.entry")
  /\ NoTake

\* a packet count that rounds down and adds one
TotalPkts_Floor(object) == Len(object) \div GATT_PKT_SIZE + 1

\* (len(object) + GATT_PKT_SIZE - 1) // GATT_PKT_SIZE
TotalPkts(object) == (Len(object) + GATT_PKT_SIZE - 1) \div GATT_PKT_SIZE

\* entry after the response to RECEIPT_NOTIF_SET(DEFAULT_PRN)
TransferringObjectEntryResume ==
  /\ pc = "set_prn_value" /\ cont = "TransferringObject.entry"
  /\ context.responses # <<>>
  /\ LET n == Head(context.responses)
         c == Dequeued(context)
         k == [cls EXCEPT !.total_pkts = TotalPkts(c.object), !.pkts_sent = 0,
                          !.object_data = c.object]
     IN  /\ Take(n)
         /\ NoWrite
         /\ IF Checked(n) # NoError THEN Raise(c, cls, Checked(n))
            ELSE Return(c, k, "HANDLED")

\* a handle that lowers the PRN whenever fewer packets remain, in mid-group too
LowerPrn_AnyPacket(pkts_sent, remaining_pkts, prn) == remaining_pkts < prn

\* whether handle lowers the PRN before the next packet
LowerPrn(pkts_sent, remaining_pkts, prn) ==
  pkts_sent % DEFAULT_PRN = 0 /\ remaining_pkts < prn

\* a handle that awaits a PRN by the default value only, not the lowered one
ExpectPrn_DefaultOnly(pkts_sent, prn) == pkts_sent % DEFAULT_PRN = 0

\* a handle that never awaits a PRN, leaving the notifications on the queue
ExpectPrn_Never(pkts_sent, prn) == FALSE

\* whether handle awaits a PRN after the packet that made pkts_sent
ExpectPrn(pkts_sent, prn) == pkts_sent % prn = 0

\* handle from "prepare the next packet" on: the packet is written, and handle
\* returns or is suspended in get_prn
SendPacket(c0, k0) ==
  LET pkt == Prefix(k0.object_data, GATT_PKT_SIZE)
      k   == [k0 EXCEPT !.object_data = Suffix(k0.object_data, GATT_PKT_SIZE),
                        !.pkts_sent = @ + 1]
      c   == [c0 EXCEPT !.pkt = pkt, !.local_crc = crc32(pkt, c0.local_crc),
                        !.bytes_sent = @ + Len(pkt)]
  IN  /\ write_pkt(pkt)
      /\ IF c.prn = 0 THEN Raise(c, k, PyError("ZeroDivisionError"))
         ELSE IF ~ExpectPrn(k.pkts_sent, c.prn) THEN Return(c, k, "HANDLED")
         ELSE Await(c, k, "get_prn", "TransferringObject.handle")

TransferringObjectHandle ==
  /\ AtHandle("TRANSFERRING_OBJECT")
  /\ NoTake
  /\ IF cls.pkts_sent >= cls.total_pkts
     THEN /\ Return(transition([context EXCEPT !.objects_sent = @ + 1], "VALIDATE_OBJECT"),
                    cls, "TRANSITIONED")
          /\ NoWrite
     ELSE IF LowerPrn(cls.pkts_sent, cls.total_pkts - cls.pkts_sent, context.prn)
     THEN set_prn_value(context, cls, cls.total_pkts - cls.pkts_sent,
                        "TransferringObject.handle")
     ELSE SendPacket(context, cls)

\* handle after the response to RECEIPT_NOTIF_SET(remaining_pkts)
TransferringObjectHandleResume ==
  /\ pc = "set_prn_value" /\ cont = "TransferringObject.handle"
  /\ context.responses # <<>>
  /\ LET n == Head(context.responses)
         c == Dequeued(context)
     IN  /\ Take(n)
         /\ IF Checked(n) # NoError THEN Raise(c, cls, Checked(n)) /\ NoWrite
            ELSE SendPacket(c, cls)

\* a handle that validates the CRC of the PRN but not its offset
TransferringObjectHandlePrn_NoOffsetCheck ==
  /\ pc = "get_prn"
  /\ context.responses # <<>>
  /\ LET n  == Head(context.responses)
         c0 == Dequeued(context)
         c  == [c0 EXCEPT !.offset = n.offset, !.target_crc = n.crc]
     IN  /\ Take(n)
         /\ NoWrite
         /\ IF Response(n) # NoError THEN Raise(c0, cls, Response(n))
            ELSE IF n.req_opcode # CRC_GET THEN Raise(c0, cls, PyError("AssertionError"))
            ELSE IF check_response(n) # NoError THEN Raise(c0, cls, check_response(n))
            ELSE IF c.target_crc # c.local_crc
            THEN Return(transition(c, "VALIDATE_OBJECT"), cls, "TRANSITIONED")
            ELSE Return(c, cls, "HANDLED")

\* handle after get_prn: the notification is validated
TransferringObjectHandlePrn ==
  /\ pc = "get_prn"
  /\ context.responses # <<>>
  /\ LET n  == Head(context.responses)
         c0 == Dequeued(context)
         c  == [c0 EXCEPT !.offset = n.offset, !.target_crc = n.crc]
     IN  /\ Take(n)
         /\ NoWrite
         /\ IF Response(n) # NoError THEN Raise(c0, cls, Response(n))
            ELSE IF n.req_opcode # CRC_GET THEN Raise(c0, cls, PyError("AssertionError"))
            ELSE IF check_response(n) # NoError THEN Raise(c0, cls, check_response(n))
            ELSE IF c.offset # c.bytes_sent THEN Raise(c, cls, DFUError(BYTES_LOST))
            ELSE IF c.target_crc # c.local_crc
            THEN Return(transition(c, "VALIDATE_OBJECT"), cls, "TRANSITIONED")
            ELSE Return(c, cls, "HANDLED")

(***************************************************************************)
(* VALIDATE_OBJECT                                                         *)
(***************************************************************************)
\* an entry that sends CRC_GET without clearing the PRN first
ValidateObjectEntry_NoClear ==
  /\ AtEntry("VALIDATE_OBJECT")
  /\ NoTake
  /\ crc_get(exit(context), cls)

ValidateObjectEntry ==
  /\ AtEntry("VALIDATE_OBJECT")
  /\ NoTake
  /\ IF exit(context).prn = 0
     THEN crc_get(exit(context), cls)
     ELSE set_prn_value(exit(context), cls, 0, "ValidateObject.entry")

\* ValidateObjectStateHandler.handle once the response is checked: the next
\* state, or the exception raised (objects_sent -= 1 names an unbound local)
ValidateBranch(target_crc, local_crc, attempts) ==
  IF target_crc # local_crc
  THEN (IF attempts >= MAX_CRC_ATTEMPTS THEN "CRC_ERROR" ELSE "UnboundLocalError")
  ELSE "EXECUTE_OBJECT"

ValidateObjectHandle ==
  /\ AtHandle("VALIDATE_OBJECT")
  /\ context.responses # <<>>
  /\ LET n  == Head(context.responses)
         c0 == Dequeued(context)
         c  == [c0 EXCEPT !.target_crc = n.crc]
         br == ValidateBranch(c.target_crc, c.local_crc, c.attempts)
     IN  /\ Take(n)
         /\ NoWrite
         /\ IF Response(n) # NoError THEN Raise(c0, cls, Response(n))
            ELSE IF n.req_opcode # CRC_GET THEN Raise(c0, cls, PyError("AssertionError"))
            ELSE IF check_response(n) # NoError THEN Raise(c0, cls, check_response(n))
            ELSE IF br = "CRC_ERROR" THEN Raise(c, cls, DFUError(CRC_ERROR))
            ELSE IF br = "UnboundLocalError" THEN Raise(c, cls, PyError(br))
            ELSE Return(transition(c, "EXECUTE_OBJECT"), cls, "TRANSITIONED")

(***************************************************************************)
(* EXECUTE_OBJECT, TRANSFER_DONE                                           *)
(***************************************************************************)
ExecuteObjectEntry ==
  /\ AtEntry("EXECUTE_OBJECT")
  /\ NoTake
  /\ object_execute(exit(context), cls)

\* a handle that takes the image for transferred after any object of its DATA
ExecuteBranch_PopEarly(obj_type, objects_sent, num_objects) ==
  IF obj_type = COMMAND THEN "PREPARING_DATA_OBJECT" ELSE "DISCONNECTED"

\* the branch of ExecuteObjectStateHandler.handle on phase and progress
ExecuteBranch(obj_type, objects_sent, num_objects) ==
  IF obj_type = COMMAND THEN "PREPARING_DATA_OBJECT"
  ELSE IF objects_sent < num_objects THEN "CREATE_OBJECT"
  ELSE IF objects_sent = num_objects THEN "DISCONNECTED"
  ELSE "AssertionError"

ExecuteObjectHandle ==
  /\ AtHandle("EXECUTE_OBJECT")
  /\ context.responses # <<>>
  /\ LET n  == Head(context.responses)
         c  == Dequeued(context)
         br == ExecuteBranch(c.obj_type, c.objects_sent, c.num_objects)
     IN  /\ Take(n)
         /\ NoWrite
         /\ IF Response(n) # NoError THEN Raise(c, cls, Response(n))
            ELSE IF n.req_opcode # OBJECT_EXECUTE
            THEN Raise(c, cls, PyError("AssertionError"))
            ELSE IF check_response(n) # NoError THEN Raise(c, cls, check_response(n))
            ELSE IF br = "PREPARING_DATA_OBJECT"
            THEN Return(transition(c, br), cls, "TRANSITIONED")
            ELSE IF br = "CREATE_OBJECT"
            THEN Return(transition([c EXCEPT !.txdata = Suffix(@, Len(c.object))], br),
                        cls, "TRANSITIONED")
            ELSE IF br = "DISCONNECTED"
            THEN Return(transition([c EXCEPT !.img_queue = Tail(@)], br),
                        cls, "TRANSITIONED")
            ELSE Raise(c, cls, PyError("AssertionError"))

\* TransferDoneStateHandler.entry: client.disconnect(), and COMPLETE ends the
\* loop of run(), whose finally clause disconnects again
TransferDoneEntry ==
  /\ AtEntry("TRANSFER_DONE")
  /\ NoWrite /\ NoTake
  /\ context' = exit(context)
  /\ cls' = cls /\ cont' = cont
  /\ pc' = "returned"
  /\ IF context.client = 0
     THEN /\ exc' = PyError("AttributeError") /\ raised' = PyError("AttributeError")
          /\ status' = status /\ clients' = clients
     ELSE /\ exc' = exc /\ raised' = raised /\ status' = "COMPLETE"
          /\ clients' = disconnect(disconnect(clients, context.client), context.client)

(***************************************************************************)
(* The specifications.                                                     *)
(***************************************************************************)
Next ==
  \/ ManagerInit
  \/ DisconnectedEntry \/ DisconnectedHandle
  \/ ConnectingEntry \/ ConnectingHandle
  \/ TransferReadyEntry \/ TransferReadyHandle
  \/ PreparingDataObjectEntry \/ PreparingDataObjectHandle
  \/ SelectObjectEntry \/ SelectObjectHandle
  \/ CreateObjectEntry \/ CreateObjectHandle
  \/ TransferringObjectEntry \/ TransferringObjectEntryResume
  \/ TransferringObjectHandle \/ TransferringObjectHandleResume
  \/ TransferringObjectHandlePrn
  \/ ValidateObjectEntry \/ ValidateObjectHandle
  \/ ExecuteObjectEntry \/ ExecuteObjectHandle
  \/ TransferDoneEntry
  \/ clear_prn_value
  \/ response_callback

Spec == Init /\ [][Next]_vars

\* the environment never deviates
InitHonest == Init /\ mode = "honest"

SpecHonest == InitHonest /\ [][Next]_vars

(***************************************************************************)
(* The decoders and the package loader are pure: they are applied to       *)
(* inputs drawn from bounded sets, with no session under way.              *)
(***************************************************************************)
\* the state of the driver while a pure function is applied
NoSession ==
  /\ pkg = DFUPackage({}, <<1, 20>>)
  /\ mode = "honest"
  /\ context = SecureDFUContext(pkg)
  /\ cls = HandlerClasses
  /\ status = "INIT" /\ pc = "init" /\ cont = "None"
  /\ exc = NoError /\ raised = NoError
  /\ clients = <<>> /\ remote = RemoteIdle /\ pending = <<>>
  /\ ctl_log = <<>> /\ pkt_log = <<>> /\ deq_log = <<>>

SessionUnchanged ==
  UNCHANGED <<pkg, context, cls, status, pc, cont, exc, raised, clients, remote,
              pending, ctl_log, pkt_log, deq_log, mode>>

InitCodec ==
  /\ NoSession
  /\ data \in Frames /\ decoded = Undecoded
  /\ archive = [manifest_json |-> TRUE, manifest_key |-> TRUE, manifest |-> <<>>]
  /\ loaded = NotLoaded
  /\ tx = TxIdle

\* get_response: Response(notification.data)
DecodeResponse ==
  /\ decoded = Undecoded
  /\ decoded' = SecureDFUResponse(data)
  /\ UNCHANGED <<data, archive, loaded, tx>>
  /\ SessionUnchanged

\* get_prn: PRN(notification.data)
DecodePrn ==
  /\ decoded = Undecoded
  /\ decoded' = SecureDFUPacketReceiptNotification(data)
  /\ UNCHANGED <<data, archive, loaded, tx>>
  /\ SessionUnchanged

\* SecureDFUExtendedErrorCode(c).error() for a member c
ExtendedError ==
  /\ decoded = Undecoded
  /\ \E c \in DOMAIN SecureDFUExtendedErrorCode :
       decoded' = [Undecoded EXCEPT !.by = "SecureDFUExtendedErrorCode",
                                    !.error = c,
                                    !.exc = SecureDFUExtendedErrorCode_error(c)]
  /\ UNCHANGED <<data, archive, loaded, tx>>
  /\ SessionUnchanged

NextCodec == DecodeResponse \/ DecodePrn \/ ExtendedError

SpecCodec == InitCodec /\ [][NextCodec]_vars

InitPackage ==
  /\ NoSession
  /\ data = <<>> /\ decoded = Undecoded
  /\ archive \in Archives
  /\ loaded = NotLoaded
  /\ tx = TxIdle

\* DFUPackage(path)
LoadPackage ==
  /\ ~loaded.done
  /\ loaded' = DFUPackage_init(archive)
  /\ UNCHANGED <<data, decoded, archive, tx>>
  /\ SessionUnchanged

NextPackage == LoadPackage

SpecPackage == InitPackage /\ [][NextPackage]_vars

(***************************************************************************)
(* The legacy transfer (remote/secure.py): SecureTxManager._dat_transfer   *)
(* with its SecureDFUClient, against a peer that answers SUCCESS, reports  *)
(* in every Packet Receipt Notification the offset and CRC of what it      *)
(* received, restarts both at the last executed object on OBJECT_CREATE,   *)
(* and may report a CRC on CRC_GET that the driver does not expect.  One   *)
(* action per case of the loop; a request and its response are one step.   *)
(***************************************************************************)
WRITING_CHARACTERISITIC_FAILED == 305

\* the image handed to _dat_transfer as object_data
LegacyImages == { Bytes(Seed("application") + 100, n) : n \in {20, 40, 300} }

\* the object capacity the peer reports on OBJECT_SELECT
LegacyMaxSizes == {20, 128, 256}

\* SecureDFUClient.write_pkt from its loop on: the groups of packets, each
\* followed by the peer's PRN and the comparison of offset and CRC.  w holds
\* the locals (data, pkts_sent, bytes_sent, crc), the client's prn, what the
\* peer has received (r_offset, r_crc) and the bytes written so far
RECURSIVE write_pkt_groups(_, _, _, _, _)
write_pkt_groups(w, pkt_size, prn, total_pkts, offset) ==
  IF w.data = <<>>
  THEN [w EXCEPT !.progress = "1.0", !.err = NoError]
  ELSE LET pkt_group_size == Min(prn, total_pkts - w.pkts_sent)
           group == Prefix(w.data, pkt_group_size * pkt_size)
           pkts  == (Len(group) + pkt_size - 1) \div pkt_size
           w1 == [w EXCEPT !.prn = pkt_group_size,
                           !.data = Suffix(w.data, pkt_group_size * pkt_size),
                           !.crc = crc32(group, w.crc),
                           !.bytes_sent = @ + Len(group),
                           !.pkts_sent = @ + pkts,
                           !.r_offset = @ + Len(group),
                           !.r_crc = crc32(group, w.r_crc),
                           !.written = @ \o group]
       IN  IF w1.r_offset # w1.bytes_sent + offset
           THEN [w1 EXCEPT !.progress = "part",
                           !.err = DFUError(WRITING_CHARACTERISITIC_FAILED)]
           ELSE IF w1.r_crc # w1.crc
           THEN [w1 EXCEPT !.progress = "part", !.err = DFUError(CRC_ERROR)]
           ELSE write_pkt_groups(w1, pkt_size, prn, total_pkts, offset)

\* SecureDFUClient.write_pkt(data=chunk, prn, crc, offset) of a client with packet
\* size pkt_size: progress "1.0" when every packet was sent and confirmed
SecureDFUClient_write_pkt(t, chunk, pkt_size, prn, crc, offset) ==
  write_pkt_groups([data |-> chunk, pkts_sent |-> 0, bytes_sent |-> 0, crc |-> crc,
                    prn |-> prn, r_offset |-> t.r_offset, r_crc |-> t.r_crc,
                    written |-> <<>>, progress |-> "0.0", err |-> NoError],
                   pkt_size, prn, (Len(chunk) + pkt_size - 1) \div pkt_size, offset)

\* a case of the loop ends: the next iteration, or the end of _dat_transfer at
\* TX_COMPLETE
TxContinue(t) ==
  /\ tx' = [t EXCEPT !.returned = (t.state = "TX_COMPLETE")]
  /\ UNCHANGED <<data, decoded, archive, loaded>>
  /\ SessionUnchanged

\* break, then raise err_code.as_err(); or an exception raised in the loop
TxRaise(t, e) ==
  /\ tx' = [t EXCEPT !.err = e, !.returned = TRUE]
  /\ UNCHANGED <<data, decoded, archive, loaded>>
  /\ SessionUnchanged

TxCase(state) == ~tx.returned /\ tx.state = state

\* case BEGINNING_TX: set_prn_value(0)
Tx_BeginningTx ==
  /\ TxCase("BEGINNING_TX")
  /\ TxContinue([tx EXCEPT !.prn = 0, !.state = "SELECTING_OBJECT"])

\* case CREATING_OBJECT: the next chunk is cut from object_data
TxNextChunk(t) ==
  [t EXCEPT !.data_chunk = Prefix(t.object_data, t.max_size),
            !.object_data = Suffix(t.object_data, t.max_size)]

\* case SELECTING_OBJECT: the three-way test on the response of a peer that
\* holds no object
Tx_SelectingObject ==
  /\ TxCase("SELECTING_OBJECT")
  /\ \E max_size \in LegacyMaxSizes :
       LET t == [tx EXCEPT !.prn = 0, !.max_size = max_size]
       IN  IF 0 = Len(t.data_chunk) /\ CRC_ZERO = crc32(t.image, CRC_ZERO)
           THEN TxContinue([t EXCEPT !.state = "EXECUTING"])
           ELSE TxContinue([t EXCEPT !.state = "CREATING_OBJECT"])

\* case CREATING_OBJECT: object_create(DATA, len(data_chunk)); the peer starts
\* the object at what it has executed
Tx_CreatingObject ==
  /\ TxCase("CREATING_OBJECT")
  /\ IF Len(tx.object_data) = 0
     THEN TxRaise(tx, PyError("AssertionError"))
     ELSE TxContinue([TxNextChunk(tx) EXCEPT !.prn = 0,
                                             !.r_offset = tx.r_exec_offset,
                                             !.r_crc = tx.r_exec_crc,
                                             !.state = "TRANSMITTING_RAW_DATA"])

\* case TRANSMITTING_RAW_DATA: write_pkt(data_chunk, crc=crc,
\* offset=total_bytes_sent), then crc = crc32(data_chunk, crc)
Tx_TransmittingRawData ==
  /\ TxCase("TRANSMITTING_RAW_DATA")
  /\ LET w == SecureDFUClient_write_pkt(tx, tx.data_chunk, 20, 10, tx.crc,
                                        tx.total_bytes_sent)
         t == [tx EXCEPT !.prn = w.prn, !.r_offset = w.r_offset, !.r_crc = w.r_crc,
                         !.sent = Append(@, w.written)]
     IN  IF w.progress # "1.0" \/ w.err # NoError
         THEN TxRaise(t, w.err)
         ELSE TxContinue([t EXCEPT !.crc = crc32(tx.data_chunk, tx.crc),
                                   !.state = "VALIDATING_RAW_DATA"])

\* case VALIDATING_RAW_DATA: crc_get() and the comparison with crc
Tx_ValidatingRawData ==
  /\ TxCase("VALIDATING_RAW_DATA")
  /\ \E res_crc \in {tx.r_crc, BadCrc(tx.r_crc)} :
       LET t == [tx EXCEPT !.prn = 0]
       IN  IF res_crc # t.crc
           THEN IF t.retries >= 3
                THEN TxRaise(t, DFUError(CRC_ERROR))
                ELSE TxContinue([t EXCEPT !.retries = @ + 1,
                                          !.state = "CREATING_OBJECT"])
           ELSE TxContinue([t EXCEPT !.total_bytes_sent = @ + Len(t.data_chunk),
                                     !.state = "EXECUTING"])

\* case EXECUTING: execute(); the peer keeps the object
Tx_Executing ==
  /\ TxCase("EXECUTING")
  /\ LET t == [tx EXCEPT !.prn = 0,
                         !.r_exec_offset = tx.r_offset, !.r_exec_crc = tx.r_crc,
                         !.executed = Append(@, tx.data_chunk)]
     IN  IF Len(t.object_data) > 0
         THEN TxContinue([t EXCEPT !.state = "CREATING_OBJECT"])
         ELSE TxContinue([t EXCEPT !.state = "TX_COMPLETE"])

InitLegacy ==
  /\ NoSession
  /\ data = <<>> /\ decoded = Undecoded
  /\ archive = [manifest_json |-> TRUE, manifest_key |-> TRUE, manifest |-> <<>>]
  /\ loaded = NotLoaded
  /\ \E image \in LegacyImages : tx = TxStart(image)

NextLegacy ==
  \/ Tx_BeginningTx \/ Tx_SelectingObject \/ Tx_CreatingObject
  \/ Tx_TransmittingRawData \/ Tx_ValidatingRawData \/ Tx_Executing

SpecLegacy == InitLegacy /\ [][NextLegacy]_vars

(***************************************************************************)
(* Operators on the logs.                                                  *)
(***************************************************************************)
RECURSIVE Concat(_)
Concat(pkts) == IF pkts = <<>> THEN <<>> ELSE Head(pkts) \o Concat(Tail(pkts))

Ops(log) == [i \in 1..Len(log) |-> log[i].opcode]
HasOp(log, op) == \E i \in 1..Len(log) : log[i].opcode = op
LastOp(log) == IF log = <<>> THEN 0 ELSE log[Len(log)].opcode

\* the requests written since the last OBJECT_EXECUTE: those of the current object
RECURSIVE SinceExecute(_)
SinceExecute(log) ==
  IF log = <<>> \/ log[Len(log)].opcode = OBJECT_EXECUTE THEN <<>>
  ELSE Append(SinceExecute(SubSeq(log, 1, Len(log) - 1)), log[Len(log)])

CountOp(log, op) == Cardinality({i \in 1..Len(log) : log[i].opcode = op})

\* requests written whose response the driver has not yet taken from the queue
Outstanding ==
  Len(ctl_log) - Cardinality({i \in 1..Len(deq_log) : ~deq_log[i].prn})

\* the driver takes a notification in this step, and it is n
Takes == Len(deq_log') = Len(deq_log) + 1
Taken == Head(context.responses)

\* the driver waits on the queue for a notification that is not there yet
Waiting ==
  /\ pc \in {"run", "set_prn_value", "get_prn"}
  /\ context.responses = <<>>
  /\ \/ pc # "run"
     \/ AtHandle("SELECT_OBJECT") \/ AtHandle("CREATE_OBJECT")
     \/ AtHandle("VALIDATE_OBJECT") \/ AtHandle("EXECUTE_OBJECT")

\* run() can never return: the driver waits and the peer owes it nothing
Stalled == Waiting /\ pending = <<>>

(***************************************************************************)
(* C1.  With a peer that every scan finds, that connects, answers SUCCESS, *)
(* reports a fresh object on OBJECT_SELECT, notifies after every prn-th    *)
(* packet and reports its true offset and CRC, run() returns with COMPLETE:*)
(* it never waits for a notification the peer does not owe, it returns     *)
(* only with COMPLETE and without an exception, and whenever a phase of an *)
(* image is completed, the packets written in it are the phase's payload,  *)
(* each byte once, in order.                                               *)
(***************************************************************************)
C1_PhaseWritten ==
  /\ context.state = "PREPARING_DATA_OBJECT"
       => Concat(pkt_log) = pkg[context.img].init_data
  /\ context.state = "DISCONNECTED" /\ context.prev_state = "EXECUTE_OBJECT"
       => Concat(pkt_log) = pkg[context.img].img_data

C1_RunCompletes ==
  /\ ~Stalled
  /\ pc = "returned" => status = "COMPLETE" /\ exc = NoError
  /\ C1_PhaseWritten

(***************************************************************************)
(* C2.  The head of img_queue is removed only by the handler of            *)
(* EXECUTE_OBJECT, in the DATA phase, on a SUCCESS response to             *)
(* OBJECT_EXECUTE and with objects_sent = num_objects; the queue never     *)
(* grows and is never reordered (it stays a suffix of the package's images *)
(* in the order bootloader, softdevice, application, so each image is      *)
(* removed once); TRANSFER_DONE and COMPLETE are reached only with the     *)
(* queue empty.                                                            *)
(***************************************************************************)
IsSuffix(s, t) == Len(s) <= Len(t) /\ s = Suffix(t, Len(t) - Len(s))

C2_PopOnly ==
  context.img_queue' # context.img_queue =>
    /\ context.img_queue' = Tail(context.img_queue)
    /\ AtHandle("EXECUTE_OBJECT") /\ Takes
    /\ ~Taken.prn /\ Taken.req_opcode = OBJECT_EXECUTE /\ Taken.status = SUCCESS
    /\ context.obj_type = DATA
    /\ context.objects_sent = context.num_objects
    /\ context'.state = "DISCONNECTED"

C2_QueueIsSuffix ==
  /\ IsSuffix(context.img_queue, Filter(ImageOrder, DOMAIN pkg))
  /\ context.state = "TRANSFER_DONE" \/ status = "COMPLETE" => context.img_queue = <<>>

C2_ImageQueue == [][C2_PopOnly]_vars /\ []C2_QueueIsSuffix

\* a package of two images is transferred, both images removed from the queue
C2_Witness ==
  /\ status = "COMPLETE" /\ context.img_queue = <<>>
  /\ Cardinality(DOMAIN pkg) = 2

(***************************************************************************)
(* C3.  OBJECT_EXECUTE is written only when all the packets of the current *)
(* object were written and the CRC_GET that followed reported the local    *)
(* CRC, or when OBJECT_SELECT reported the whole payload present with the  *)
(* right CRC; a transfer cut short by a CRC mismatch in a packet receipt   *)
(* notification does not lead to OBJECT_EXECUTE.                           *)
(***************************************************************************)
C3_ExecuteOnlyValidated ==
  LastOp(ctl_log) = OBJECT_EXECUTE =>
    \/ /\ context.prev_state = "VALIDATE_OBJECT"
       /\ cls.pkts_sent = cls.total_pkts
       /\ context.target_crc = context.local_crc
    \/ /\ context.prev_state = "SELECT_OBJECT"
       /\ context.offset = Len(context.txdata)
       /\ context.target_crc = crc32(context.txdata, CRC_ZERO)
    \/ context.state # "EXECUTE_OBJECT"

\* ValidateObjectStateHandler.handle takes a SUCCESS response to CRC_GET
ValidateTakes ==
  /\ AtHandle("VALIDATE_OBJECT") /\ Takes
  /\ ~Taken.prn /\ Taken.req_opcode = CRC_GET /\ Taken.status = SUCCESS

\* where the current object starts in the payload of the phase
ObjectStart == Len(PhasePayload(context.obj_type)) - Len(context.txdata)

(***************************************************************************)
(* C4.  In VALIDATE_OBJECT, a CRC_GET response whose CRC differs from      *)
(* local_crc while attempts < 3 leads to CREATE_OBJECT, with the same      *)
(* object still to be created and no error; a CRC equal to local_crc leads *)
(* to EXECUTE_OBJECT.                                                      *)
(***************************************************************************)
C4_ValidateStep ==
  ValidateTakes =>
    IF Taken.crc = context.local_crc
    THEN pc' = "run" /\ exc' = NoError /\ context'.state = "EXECUTE_OBJECT"
    ELSE context.attempts < MAX_CRC_ATTEMPTS =>
           /\ pc' = "run" /\ exc' = NoError
           /\ context'.state = "CREATE_OBJECT"
           /\ context'.object = context.object /\ context'.txdata = context.txdata

C4_RetryOnMismatch == [][C4_ValidateStep]_vars

(***************************************************************************)
(* C5.  The re-creation that follows a CRC mismatch starts the second      *)
(* cycle from the values the object started with: bytes_sent is the offset *)
(* of the object in the payload, local_crc the CRC of the payload before   *)
(* the object, objects_sent one less than after the transfer, so that a    *)
(* correct second transfer passes the offset check and the CRC check.      *)
(***************************************************************************)
C5_RestartStep ==
  ValidateTakes /\ Taken.crc # context.local_crc /\ context.attempts < MAX_CRC_ATTEMPTS =>
    /\ context'.state = "CREATE_OBJECT" /\ exc' = NoError
    /\ context'.bytes_sent = ObjectStart
    /\ context'.local_crc = crc32(Prefix(PhasePayload(context.obj_type), ObjectStart), CRC_ZERO)
    /\ context'.objects_sent = context.objects_sent - 1

C5_SecondCyclePasses == [][C5_RestartStep]_vars

(***************************************************************************)
(* C6.  A CRC_GET response that differs from local_crc ends run() only as  *)
(* the third in a row for the same object (three CRC_GET requests since    *)
(* the object before it was executed), and then with DFUError 309 and      *)
(* disconnect() called once on the client.                                 *)
(***************************************************************************)
C6_MismatchEndsStep ==
  ValidateTakes /\ Taken.crc # context.local_crc /\ pc' = "returned" =>
    /\ CountOp(SinceExecute(ctl_log), CRC_GET) = MAX_CRC_ATTEMPTS
    /\ exc' = DFUError(CRC_ERROR)
    /\ clients'[context.client].disconnects = 1

C6_ThirdMismatchFails == [][C6_MismatchEndsStep]_vars

(***************************************************************************)
(* C7.  attempts is 0 when the first transfer of an object begins (the     *)
(* object was created once since the object before it was executed), and   *)
(* CRC_ERROR is never raised on the first CRC_GET of an object.            *)
(***************************************************************************)
C7_AttemptsPerObject ==
  /\ AtEntry("TRANSFERRING_OBJECT")
       /\ CountOp(SinceExecute(ctl_log), OBJECT_CREATE) = 1
       => context.attempts = 0
  /\ pc = "returned" /\ exc = DFUError(CRC_ERROR)
       => CountOp(SinceExecute(ctl_log), CRC_GET) > 1

(***************************************************************************)
(* C8.  When the SUCCESS response to OBJECT_SELECT reports an offset       *)
(* inside the payload, 0 < offset < len(txdata), and the CRC of that       *)
(* prefix, the handler goes to TRANSFERRING_OBJECT without an error and    *)
(* without OBJECT_CREATE.                                                  *)
(***************************************************************************)
C8_ResumeStep ==
  /\ AtHandle("SELECT_OBJECT") /\ Takes
  /\ ~Taken.prn /\ Taken.req_opcode = OBJECT_SELECT /\ Taken.status = SUCCESS
  /\ Taken.max_size > 0
  /\ 0 < Taken.offset /\ Taken.offset < Len(context.txdata)
  /\ Taken.crc = crc32(Prefix(context.txdata, Taken.offset), CRC_ZERO)
  => /\ pc' = "run" /\ exc' = NoError
     /\ context'.state = "TRANSFERRING_OBJECT"
     /\ ~HasOp(ctl_log', OBJECT_CREATE)

C8_ResumePartial == [][C8_ResumeStep]_vars

(***************************************************************************)
(* C9.  When, in the COMMAND phase, the SUCCESS response to OBJECT_SELECT  *)
(* (with an object capacity max_size >= 1) reports offset = len(init_data) *)
(* and crc = crc32(init_data), the handler goes to EXECUTE_OBJECT, and on  *)
(* the SUCCESS response to OBJECT_EXECUTE to PREPARING_DATA_OBJECT; in     *)
(* that phase no OBJECT_CREATE and no data packet is written: the requests *)
(* of the phase are RECEIPT_NOTIF_SET(0), OBJECT_SELECT, OBJECT_EXECUTE.   *)
(***************************************************************************)
\* the COMMAND phase took the way from SELECT_OBJECT straight to EXECUTE_OBJECT
CommandSkipped ==
  /\ context.obj_type = COMMAND
  /\ \/ context.state = "EXECUTE_OBJECT" /\ context.prev_state = "SELECT_OBJECT"
     \/ /\ context.state = "PREPARING_DATA_OBJECT"
        /\ context.prev_state = "EXECUTE_OBJECT"
        /\ ~HasOp(ctl_log, CRC_GET)

C9_SelectStep ==
  /\ AtHandle("SELECT_OBJECT") /\ Takes
  /\ context.obj_type = COMMAND
  /\ ~Taken.prn /\ Taken.req_opcode = OBJECT_SELECT /\ Taken.status = SUCCESS
  /\ Taken.max_size >= 1
  /\ Taken.offset = Len(pkg[context.img].init_data)
  /\ Taken.crc = crc32(pkg[context.img].init_data, CRC_ZERO)
  => pc' = "run" /\ exc' = NoError /\ context'.state = "EXECUTE_OBJECT"

C9_ExecuteStep ==
  /\ AtHandle("EXECUTE_OBJECT") /\ Takes /\ CommandSkipped
  /\ ~Taken.prn /\ Taken.req_opcode = OBJECT_EXECUTE /\ Taken.status = SUCCESS
  => pc' = "run" /\ exc' = NoError /\ context'.state = "PREPARING_DATA_OBJECT"

C9_NothingWritten ==
  CommandSkipped =>
    /\ pkt_log = <<>>
    /\ ~HasOp(ctl_log, OBJECT_CREATE)
    /\ Ops(ctl_log) \in { <<RECEIPT_NOTIF_SET, OBJECT_SELECT>>,
                          <<RECEIPT_NOTIF_SET, OBJECT_SELECT, OBJECT_EXECUTE>> }

C10_Serialised ==
  /\ Outstanding \in {0, 1}
  /\ AtEntry("SELECT_OBJECT") => Outstanding = 0 /\ ctl_log = <<>>

\* a request is written after the response to the one before it was taken
C10_Witness ==
  /\ Len(ctl_log) >= 2 /\ Outstanding = 1
  /\ LastOp(ctl_log) = CRC_GET
  /\ pending # <<>>

(***************************************************************************)
(* C11.  The callback enqueues while the driver runs.  A notification the  *)
(* driver takes in the PRN wait of TRANSFERRING_OBJECT is a PRN; one it    *)
(* takes anywhere else is a response, to the one request that is           *)
(* outstanding, and carries that request's opcode; so one notification is  *)
(* taken per request.  The queue is empty, and the peer owes nothing, when *)
(* a phase starts (SELECT_OBJECT is entered), when a phase is completed    *)
(* and when run() completes.                                               *)
(***************************************************************************)
C11_TakeStep ==
  Takes =>
    IF pc = "get_prn" THEN Taken.prn
    ELSE /\ ~Taken.prn
         /\ Outstanding = 1
         /\ Taken.req_opcode = LastOp(ctl_log)

C11_NothingStale ==
  \/ AtEntry("SELECT_OBJECT")
  \/ AtEntry("PREPARING_DATA_OBJECT")
  \/ AtEntry("DISCONNECTED") /\ context.prev_state = "EXECUTE_OBJECT"
  \/ status = "COMPLETE"
  => context.responses = <<>> /\ pending = <<>> /\ Outstanding = 0

C11_OnePerRequest == [][C11_TakeStep]_vars /\ []C11_NothingStale

\* responses and PRNs were taken in a DATA phase that is now completed
C11_Witness ==
  /\ AtEntry("DISCONNECTED") /\ context.prev_state = "EXECUTE_OBJECT"
  /\ \E i \in 1..Len(deq_log) : deq_log[i].prn
  /\ Len(ctl_log) >= 5

(***************************************************************************)
(* C12.  Whenever the driver writes OBJECT_SELECT, OBJECT_CREATE,          *)
(* OBJECT_EXECUTE or CRC_GET, the PRN it has configured is 0: context.prn  *)
(* is 0, and so is the value the peer was last sent.                       *)
(***************************************************************************)
C12_WriteStep ==
  /\ Len(ctl_log') = Len(ctl_log) + 1
  /\ LastOp(ctl_log') \in {OBJECT_SELECT, OBJECT_CREATE, OBJECT_EXECUTE, CRC_GET}
  => context'.prn = 0 /\ remote'.prn = 0

C12_PrnClearedAtRequests == [][C12_WriteStep]_vars

\* CRC_GET is written after a transfer that ran with a PRN of its own
C12_Witness ==
  /\ LastOp(ctl_log) = CRC_GET /\ context.prn = 0
  /\ \E i \in 1..Len(ctl_log) :
       ctl_log[i].opcode = RECEIPT_NOTIF_SET /\ ctl_log[i].prn_value > 0
  /\ pkt_log # <<>>

(***************************************************************************)
(* C13.  In every reachable state local_crc is the CRC-32 of the first     *)
(* bytes_sent bytes of the payload of the current phase (init_data in      *)
(* COMMAND, img_data in DATA).                                             *)
(***************************************************************************)
C13_LocalCrc ==
  context.local_crc =
    crc32(Prefix(PhasePayload(context.obj_type), context.bytes_sent), CRC_ZERO)

(***************************************************************************)
(* C14.  In every reachable state bytes_sent is at most the length of the  *)
(* original payload of the current phase.                                  *)
(***************************************************************************)
C14_BytesSentBounded ==
  context.bytes_sent <= Len(PhasePayload(context.obj_type))

\* the whole image has been written, in more than one object
C14_Witness ==
  /\ context.obj_type = DATA /\ context.objects_sent > 1
  /\ context.bytes_sent = Len(pkg[context.img].img_data)
  /\ Concat(pkt_log) = pkg[context.img].img_data

(***************************************************************************)
(* C15.  bytes_sent never decreases within a phase, and when the handler   *)
(* of EXECUTE_OBJECT completes a phase (COMMAND for PREPARING_DATA_OBJECT, *)
(* DATA for DISCONNECTED) bytes_sent is the length of the phase's payload. *)
(***************************************************************************)
C15_Step ==
  /\ context'.obj_type = context.obj_type => context'.bytes_sent >= context.bytes_sent
  /\ AtHandle("EXECUTE_OBJECT")
       /\ context'.state \in {"PREPARING_DATA_OBJECT", "DISCONNECTED"}
       => context.bytes_sent = Len(PhasePayload(context.obj_type))

C15_BytesSentAtCompletion == [][C15_Step]_vars

(***************************************************************************)
(* C16.  objects_sent <= num_objects in every state (both are 0 until      *)
(* num_objects is computed for the phase); when the handler of             *)
(* EXECUTE_OBJECT goes to DISCONNECTED, objects_sent = num_objects; and    *)
(* the handler never falls through its three cases to the assertion at its *)
(* end.                                                                    *)
(***************************************************************************)
C16_Bounded == context.objects_sent <= context.num_objects

C16_ExecuteStep ==
  AtHandle("EXECUTE_OBJECT") /\ Takes =>
    /\ ExecuteBranch(context.obj_type, context.objects_sent, context.num_objects)
         # "AssertionError"
    /\ context'.state = "DISCONNECTED" => context.objects_sent = context.num_objects

C16_ObjectsSent == []C16_Bounded /\ [][C16_ExecuteStep]_vars

\* an image of three objects is completed
C16_Witness ==
  /\ AtEntry("DISCONNECTED") /\ context.prev_state = "EXECUTE_OBJECT"
  /\ context.num_objects = 3 /\ context.objects_sent = 3

(***************************************************************************)
(* C17.  When a PRN received in TRANSFERRING_OBJECT reports an offset      *)
(* other than bytes_sent, the handler raises BYTES_LOST (308), which ends  *)
(* run(), and nothing is written from then on; when the offset is          *)
(* bytes_sent and the CRC differs from local_crc, the handler raises       *)
(* nothing and transitions to VALIDATE_OBJECT.                             *)
(***************************************************************************)
C17_PrnStep ==
  pc = "get_prn" /\ Takes /\ Taken.prn /\ Taken.status = SUCCESS =>
    IF Taken.offset # context.bytes_sent
    THEN /\ raised' = DFUError(BYTES_LOST) /\ exc' = DFUError(BYTES_LOST)
         /\ pc' = "returned"
         /\ ctl_log' = ctl_log /\ pkt_log' = pkt_log
    ELSE Taken.crc # context.local_crc =>
           /\ raised' = NoError /\ exc' = NoError /\ pc' = "run"
           /\ context'.state = "VALIDATE_OBJECT" /\ status' = "TRANSITIONED"

C17_Silent == pc = "returned" => ctl_log' = ctl_log /\ pkt_log' = pkt_log

C17_PrnValidation == [][C17_PrnStep]_vars /\ [][C17_Silent]_vars

\* run() has ended with BYTES_LOST raised on a PRN
C17_WitnessLost ==
  /\ pc = "returned" /\ raised = DFUError(BYTES_LOST)
  /\ context.state = "TRANSFERRING_OBJECT"
  /\ context.offset # context.bytes_sent

(***************************************************************************)
(* C18.  In DISCONNECTED with images left, a failed scan that is one of    *)
(* the first MAX_ATTEMPTS - 1 = 9 in a row leaves the state DISCONNECTED   *)
(* and raises nothing; the tenth in a row makes the handler raise          *)
(* FAILED_TO_CONNECT (201); never are more than ten scans made in a row    *)
(* without a successful one.                                               *)
(***************************************************************************)
C18_ScanStep ==
  /\ AtHandle("DISCONNECTED") /\ context.img_queue # <<>>
  /\ cls'.search_attempts = cls.search_attempts + 1
  /\ context'.target = "None"
  => IF cls.search_attempts < MAX_ATTEMPTS - 1
     THEN /\ pc' = "run" /\ raised' = NoError
          /\ context'.state = "DISCONNECTED" /\ status' = "HANDLED"
     ELSE /\ cls.search_attempts = MAX_ATTEMPTS - 1
          /\ pc' = "returned" /\ raised' = DFUError(FAILED_TO_CONNECT)

C18_ScanBound == [][C18_ScanStep]_vars /\ [](cls.search_attempts <= MAX_ATTEMPTS)

\* the tenth scan in a row has failed
C18_Witness ==
  /\ pc = "returned" /\ raised = DFUError(FAILED_TO_CONNECT)
  /\ cls.search_attempts = MAX_ATTEMPTS /\ context.state = "DISCONNECTED"

(***************************************************************************)
(* C19.  When a hook raises a DFUError, the exception that escapes run()   *)
(* is that DFUError, with its code, in whatever state it is raised, also   *)
(* before a connection was made.                                           *)
(***************************************************************************)
C19_ErrorPropagates ==
  pc = "returned" /\ raised.type = "DFUError" => exc = raised

(***************************************************************************)
(* C20.  When run() has ended, completed or failed, disconnect() was       *)
(* called once on each client the driver connected, so that none is left   *)
(* connected and none was disconnected twice, and it was not called on a   *)
(* client that does not exist (which raises AttributeError on None).       *)
(***************************************************************************)
C20_DisconnectOnce ==
  pc = "returned" =>
    /\ \A i \in 1..Len(clients) :
         ~clients[i].connected /\ clients[i].disconnects <= 1
    /\ exc # PyError("AttributeError")

(***************************************************************************)
(* C21.  Whenever the driver takes a response or a PRN whose result code r *)
(* is not SUCCESS, run() ends with the DFUError of code r + 10, for every  *)
(* result code of SecureDFUResultCode, and nothing is written after it.    *)
(***************************************************************************)
C21_TakeStep ==
  Takes /\ Taken.status # SUCCESS =>
    /\ pc' = "returned"
    /\ exc' = DFUError(Taken.status + SECURE_OFFSET)
    /\ ctl_log' = ctl_log /\ pkt_log' = pkt_log

C21_RemoteError == [][C21_TakeStep]_vars


(***************************************************************************)
(* C28.  Creating a session is rejected exactly when the package has no    *)
(* images or holds bootloader and application without softdevice; every    *)
(* other combination is accepted and its img_queue lists the images.       *)
(***************************************************************************)
C28_MustReject ==
  \/ DOMAIN pkg = {}
  \/ /\ "bootloader" \in DOMAIN pkg
     /\ "application" \in DOMAIN pkg
     /\ "softdevice" \notin DOMAIN pkg

C28_RejectedExactly ==
  pc # "init" =>
    /\ (pc = "rejected") <=> C28_MustReject
    /\ pc # "rejected" =>
         {context.img_queue[i] : i \in 1..Len(context.img_queue)} \subseteq DOMAIN pkg


(***************************************************************************)
(* C27.  clear_prn_value() with prn = 0 and force false writes nothing,    *)
(* takes no notification and leaves the context as it is; with prn # 0 or  *)
(* force true it writes exactly one RECEIPT_NOTIF_SET(0), takes exactly    *)
(* one response and leaves prn = 0.  It is called without force by the     *)
(* entry hooks of CREATE_OBJECT and VALIDATE_OBJECT and with force by the  *)
(* entry hook of SELECT_OBJECT.                                            *)
(***************************************************************************)
DriverStep == <<pc, status>>' # <<pc, status>>

C27_Written == SubSeq(ctl_log', Len(ctl_log) + 1, Len(ctl_log'))

C27_NoOp ==
  /\ AtEntry("CREATE_OBJECT") \/ AtEntry("VALIDATE_OBJECT")
  /\ exit(context).prn = 0
  /\ DriverStep

C27_Clears ==
  /\ \/ AtEntry("SELECT_OBJECT")
     \/ (AtEntry("CREATE_OBJECT") \/ AtEntry("VALIDATE_OBJECT")) /\ exit(context).prn # 0
  /\ DriverStep

C27_Resumes ==
  /\ pc = "set_prn_value"
  /\ cont \in {"SelectObject.entry", "CreateObject.entry", "ValidateObject.entry"}
  /\ DriverStep

C27_Step ==
  /\ C27_NoOp =>
       /\ ~HasOp(C27_Written, RECEIPT_NOTIF_SET)
       /\ deq_log' = deq_log
       /\ pc' # "set_prn_value"
       /\ context' = [exit(context) EXCEPT !.object = context'.object]
  /\ C27_Clears =>
       /\ C27_Written = <<Request(RECEIPT_NOTIF_SET, INVALID, 0, 0)>>
       /\ deq_log' = deq_log
       /\ pc' = "set_prn_value"
       /\ context'.prn = 0
  /\ C27_Resumes =>
       /\ Takes
       /\ context'.responses = Tail(context.responses)
       /\ ~Taken.prn /\ Taken.req_opcode = RECEIPT_NOTIF_SET
       /\ ~HasOp(C27_Written, RECEIPT_NOTIF_SET)
       /\ context'.prn = 0

C27_ClearPrn == [][C27_Step]_vars

\* the second object of a phase is being created: the PRN value was cleared
\* before the CRC_GET of the first, and the entry hook found it cleared
C27_Witness ==
  /\ context.state = "CREATE_OBJECT" /\ status = "HANDLED"
  /\ context.objects_sent >= 1
  /\ context.prn = 0
  /\ LastOp(ctl_log) = OBJECT_CREATE
  /\ Len(ctl_log) >= 2 /\ ctl_log[Len(ctl_log) - 1].opcode = OBJECT_EXECUTE
  /\ \E i \in 1..Len(ctl_log) - 1 :
        ctl_log[i] = Request(RECEIPT_NOTIF_SET, INVALID, 0, 0)
        /\ ctl_log[i + 1].opcode = CRC_GET


(***************************************************************************)
(* C26.  Every write to the Packet characteristic carries 1..20 bytes; an  *)
(* object of n bytes is written as ceil(n/20) packets, all of 20 bytes     *)
(* except a last one of n mod 20 bytes when 20 does not divide n, and the  *)
(* packets in write order, concatenated, are the object.                   *)
(***************************************************************************)
\* the handler's class variables describe context.object
C26_InObject ==
  \/ /\ context.state = "TRANSFERRING_OBJECT"
     /\ \/ pc = "run" /\ status # "TRANSITIONED"
        \/ pc = "get_prn"
        \/ pc = "set_prn_value" /\ cont = "TransferringObject.handle"
  \/ /\ context.state = "VALIDATE_OBJECT"
     /\ pc \in {"run", "set_prn_value"}

\* the packets written for the current object
C26_Sent == SubSeq(pkt_log, Len(pkt_log) - cls.pkts_sent + 1, Len(pkt_log))

C26_Packets ==
  /\ \A i \in 1..Len(pkt_log) : Len(pkt_log[i]) \in 1..GATT_PKT_SIZE
  /\ C26_InObject =>
       LET n == Len(context.object)
       IN  /\ cls.pkts_sent <= Len(pkt_log)
           /\ Concat(C26_Sent) \o cls.object_data = context.object
           /\ \A i \in 1..cls.pkts_sent :
                 Len(C26_Sent[i]) = GATT_PKT_SIZE \/ (i = cls.pkts_sent /\ cls.object_data = <<>>)
           /\ cls.object_data = <<>> =>
                 /\ GATT_PKT_SIZE * (cls.pkts_sent - 1) < n
                 /\ n <= GATT_PKT_SIZE * cls.pkts_sent
                 /\ cls.pkts_sent = cls.total_pkts
                 /\ Len(C26_Sent[cls.pkts_sent]) =
                      IF n % GATT_PKT_SIZE = 0 THEN GATT_PKT_SIZE ELSE n % GATT_PKT_SIZE

\* an object whose size is not a multiple of 20 has been written
C26_Witness ==
  /\ context.state = "VALIDATE_OBJECT" /\ pc = "run"
  /\ cls.object_data = <<>>
  /\ cls.pkts_sent >= 2
  /\ Len(context.object) % GATT_PKT_SIZE # 0
  /\ Len(pkt_log[Len(pkt_log)]) = Len(context.object) % GATT_PKT_SIZE


(***************************************************************************)
(* C25.  In TRANSFERRING_OBJECT, when the driver is about to start a new   *)
(* PRN group (the peer has counted no packet towards its next              *)
(* notification) and fewer packets remain in the object than the PRN       *)
(* value in force, it writes RECEIPT_NOTIF_SET(remaining) and takes its    *)
(* response before it writes the next packet; in every other case it      *)
(* writes the next packet and no RECEIPT_NOTIF_SET.                        *)
(***************************************************************************)
C25_Remaining == cls.total_pkts - cls.pkts_sent

C25_NextPacket ==
  /\ AtHandle("TRANSFERRING_OBJECT")
  /\ cls.pkts_sent < cls.total_pkts
  /\ DriverStep

C25_GroupStart == remote.cnt = 0

C25_Step ==
  /\ C25_NextPacket /\ C25_GroupStart /\ C25_Remaining < context.prn =>
       /\ C27_Written = <<Request(RECEIPT_NOTIF_SET, INVALID, 0, C25_Remaining)>>
       /\ pkt_log' = pkt_log
       /\ deq_log' = deq_log
       /\ pc' = "set_prn_value" /\ cont' = "TransferringObject.handle"
       /\ context'.prn = C25_Remaining
  /\ C25_NextPacket /\ ~(C25_GroupStart /\ C25_Remaining < context.prn) =>
       /\ ctl_log' = ctl_log
       /\ Len(pkt_log') = Len(pkt_log) + 1
  /\ pc = "set_prn_value" /\ cont = "TransferringObject.handle" =>
       /\ ctl_log' = ctl_log
       /\ pkt_log' # pkt_log =>
            /\ Takes /\ ~Taken.prn /\ Taken.req_opcode = RECEIPT_NOTIF_SET
            /\ Taken.status = SUCCESS
            /\ Len(pkt_log') = Len(pkt_log) + 1
            /\ Outstanding = 1

C25_PrnLowered == [][C25_Step]_vars

\* the PRN value was lowered in mid-object and the next packet has followed
C25_Witness ==
  /\ context.state = "TRANSFERRING_OBJECT" /\ pc = "run"
  /\ cls.pkts_sent = DEFAULT_PRN + 1
  /\ context.prn = cls.total_pkts - DEFAULT_PRN
  /\ LastOp(ctl_log) = RECEIPT_NOTIF_SET
  /\ ctl_log[Len(ctl_log)].prn_value = context.prn


(***************************************************************************)
(* C24.  In a fresh DATA phase with a payload of L bytes and max_size M    *)
(* and no CRC errors, ceil(L/M) objects are created; the k-th              *)
(* OBJECT_CREATE has size min(M, L - (k-1)M) and its packets carry         *)
(* payload[(k-1)M : kM]; the driver never waits for a notification the     *)
(* peer does not owe, and once the phase is over (DISCONNECTED reached     *)
(* from EXECUTE_OBJECT) all ceil(L/M) objects have been created and        *)
(* executed and the image is off the queue.                                *)
(***************************************************************************)
RECURSIVE SelectOp(_, _)
SelectOp(log, op) ==
  IF log = <<>> THEN <<>>
  ELSE IF Head(log).opcode = op THEN <<Head(log)>> \o SelectOp(Tail(log), op)
  ELSE SelectOp(Tail(log), op)

C24_Ceil(l, m) == (l + m - 1) \div m

C24_InData ==
  /\ context.obj_type = DATA
  /\ context.max_size > 0
  /\ context.state \in {"CREATE_OBJECT", "TRANSFERRING_OBJECT", "VALIDATE_OBJECT",
                        "EXECUTE_OBJECT"}
     \/ (context.state = "DISCONNECTED" /\ context.prev_state = "EXECUTE_OBJECT")

C24_DataObjects ==
  C24_InData =>
    LET payload == pkg[context.img].img_data
        L       == Len(payload)
        M       == context.max_size
        creates == SelectOp(ctl_log, OBJECT_CREATE)
    IN  /\ ~Stalled
        /\ Len(creates) <= C24_Ceil(L, M)
        /\ \A k \in 1..Len(creates) :
              /\ creates[k].object_type = DATA
              /\ creates[k].object_size = Min(M, L - (k - 1) * M)
        /\ Concat(pkt_log) = Prefix(payload, Len(Concat(pkt_log)))
        /\ context.state = "DISCONNECTED" =>
              /\ Len(creates) = C24_Ceil(L, M)
              /\ CountOp(ctl_log, OBJECT_EXECUTE) = C24_Ceil(L, M)
              /\ Concat(pkt_log) = payload
              /\ (context.img_queue = <<>> \/ Head(context.img_queue) # context.img)


(***************************************************************************)
(* C23.  A fresh COMMAND phase with init_data of 140 bytes and max_size    *)
(* 256.  As claimed: the requests are exactly OBJECT_SELECT(COMMAND),      *)
(* OBJECT_CREATE(COMMAND, 140), RECEIPT_NOTIF_SET(10), then seven 20-byte  *)
(* packets and one PRN (offset 140), CRC_GET, OBJECT_EXECUTE, and no other *)
(* request.  As checked: the requests are exactly RECEIPT_NOTIF_SET(0),    *)
(* OBJECT_SELECT(COMMAND), OBJECT_CREATE(COMMAND, 140),                    *)
(* RECEIPT_NOTIF_SET(10), RECEIPT_NOTIF_SET(7), then seven 20-byte packets *)
(* and one PRN (offset 140), RECEIPT_NOTIF_SET(0), CRC_GET,                *)
(* OBJECT_EXECUTE; each response is taken before the next request or       *)
(* packet is written, and the PRN after the seventh packet and before the  *)
(* RECEIPT_NOTIF_SET(0).                                                   *)
(***************************************************************************)
C23_InCommand ==
  /\ context.img # "None"
  /\ context.obj_type = COMMAND
  /\ Len(pkg[context.img].init_data) = 140
  /\ pc # "returned"
  /\ context.state \in {"SELECT_OBJECT", "CREATE_OBJECT", "TRANSFERRING_OBJECT",
                        "VALIDATE_OBJECT", "EXECUTE_OBJECT", "PREPARING_DATA_OBJECT"}
  /\ Len(ctl_log) <= 2 \/ context.max_size = 256

C23_Claimed ==
  << Request(OBJECT_SELECT, COMMAND, 0, 0),
     Request(OBJECT_CREATE, COMMAND, 140, 0),
     Request(RECEIPT_NOTIF_SET, INVALID, 0, DEFAULT_PRN),
     Request(CRC_GET, INVALID, 0, 0),
     Request(OBJECT_EXECUTE, INVALID, 0, 0) >>

C23_Requests ==
  << Request(RECEIPT_NOTIF_SET, INVALID, 0, 0),
     Request(OBJECT_SELECT, COMMAND, 0, 0),
     Request(OBJECT_CREATE, COMMAND, 140, 0),
     Request(RECEIPT_NOTIF_SET, INVALID, 0, DEFAULT_PRN),
     Request(RECEIPT_NOTIF_SET, INVALID, 0, 7),
     Request(RECEIPT_NOTIF_SET, INVALID, 0, 0),
     Request(CRC_GET, INVALID, 0, 0),
     Request(OBJECT_EXECUTE, INVALID, 0, 0) >>

\* the notifications in the order they are taken: a response per request, and
\* the PRN before the response to the third RECEIPT_NOTIF_SET
C23_Taken(requests, before) ==
  [i \in 1..Len(requests) + 1 |->
     IF i < before THEN [prn |-> FALSE, req_opcode |-> requests[i].opcode]
     ELSE IF i = before THEN [prn |-> TRUE, req_opcode |-> CRC_GET]
     ELSE [prn |-> FALSE, req_opcode |-> requests[i - 1].opcode]]

\* the packets and the PRN fall between the first `before` requests and the rest
C23_Sequence(requests, before) ==
  C23_InCommand =>
    /\ ctl_log = Prefix(requests, Len(ctl_log))
    /\ deq_log = Prefix(C23_Taken(requests, before + 1), Len(deq_log))
    /\ Outstanding \in {0, 1}
    /\ Len(pkt_log) <= 7
    /\ \A i \in 1..Len(pkt_log) : Len(pkt_log[i]) = GATT_PKT_SIZE
    /\ Len(pkt_log) > 0 => Len(ctl_log) >= before /\ Len(deq_log) >= before
    /\ Len(deq_log) > before => Len(pkt_log) = 7 /\ context.offset = 140
    /\ Len(ctl_log) > before => Len(deq_log) > before
    /\ context.state = "PREPARING_DATA_OBJECT" =>
         /\ ctl_log = requests
         /\ deq_log = C23_Taken(requests, before + 1)
         /\ Concat(pkt_log) = pkg[context.img].init_data

C23_AsClaimed == C23_Sequence(C23_Claimed, 3)

C23_CommandSequence == C23_Sequence(C23_Requests, 5)

C23_Witness ==
  /\ C23_InCommand
  /\ context.state = "PREPARING_DATA_OBJECT"
  /\ ctl_log = C23_Requests
  /\ Len(pkt_log) = 7


(***************************************************************************)
(* C22.  Decoding a response frame whose result is EXTENDED_ERROR and that *)
(* has at least 4 bytes succeeds and yields the sub-code of byte[3], and   *)
(* every sub-code of the taxonomy (0x03..0x07, 0x09..0x0D) maps to the     *)
(* error code 20 + sub-code.                                               *)
(***************************************************************************)
C22_Decoders == {"SecureDFUResponse", "SecureDFUPacketReceiptNotification"}

C22_ExtendedFrame ==
  /\ decoded.by \in C22_Decoders
  /\ Len(data) >= 4
  /\ data[1] = RESPONSE /\ data[2] \in SecureDFUOpcode /\ data[3] = EXTENDED_ERROR
  /\ data[4] \in DOMAIN SecureDFUExtendedErrorCode

C22_ExtendedError ==
  /\ C22_ExtendedFrame => decoded.exc = NoError /\ decoded.error = data[4]
  /\ decoded.by = "SecureDFUExtendedErrorCode" /\ decoded.error # 0
       => decoded.exc = DFUError(20 + decoded.error)

(***************************************************************************)
(* C30.  For every successful OBJECT_SELECT response frame (0x60, 0x06,    *)
(* 0x01, max_size, offset, crc) and every successful CRC_GET/PRN frame     *)
(* (0x60, 0x03, 0x01, offset, crc), the fields being little-endian uint32, *)
(* decoding the frame and encoding the decoded fields in that layout gives *)
(* the frame back; a frame whose byte[0] is not 0x60 is not decoded.       *)
(***************************************************************************)
C30_Header == <<decoded.opcode, decoded.req_opcode, decoded.status>>

C30_SelectFrame ==
  /\ decoded.by = "SecureDFUResponse"
  /\ Len(data) = 15
  /\ SubSeq(data, 1, 3) = <<RESPONSE, OBJECT_SELECT, SUCCESS>>

C30_CrcFrame ==
  /\ decoded.by \in C22_Decoders
  /\ Len(data) = 11
  /\ SubSeq(data, 1, 3) = <<RESPONSE, CRC_GET, SUCCESS>>

C30_FieldsRoundTrip ==
  /\ C30_SelectFrame =>
       /\ decoded.exc = NoError
       /\ C30_Header \o int_to_bytes(decoded.max_size) \o int_to_bytes(decoded.offset)
            \o int_to_bytes(decoded.crc) = data
  /\ C30_CrcFrame =>
       /\ decoded.exc = NoError
       /\ C30_Header \o int_to_bytes(decoded.offset) \o int_to_bytes(decoded.crc) = data

C30_RoundTrip ==
  /\ C30_FieldsRoundTrip
  /\ decoded.by \in C22_Decoders /\ Len(data) >= 1 /\ data[1] # RESPONSE
       => decoded.exc # NoError

(***************************************************************************)
(* C29.  Loading a package that lacks manifest.json, the key `manifest`,   *)
(* a bin_file or dat_file entry, or a member an entry names, fails with a  *)
(* DFUError whose code is FILE_NOT_SPECIFIED (101), FILE_INVALID (102) or  *)
(* INIT_PACKET_REQUIRED (104), and yields no package.                      *)
(***************************************************************************)
C29_Lacking ==
  \/ ~archive.manifest_json
  \/ ~archive.manifest_key
  \/ \E i \in 1..Len(archive.manifest) :
       LET e == archive.manifest[i]
       IN  ~e.bin_key \/ ~e.dat_key \/ ~e.bin_member \/ ~e.dat_member

C29_LoadFails ==
  loaded.done /\ C29_Lacking =>
    /\ loaded.exc.type = "DFUError"
    /\ loaded.exc.code \in {101, 102, 104}
    /\ loaded.images = <<>>


(***************************************************************************)
(* C31.  Every state change of the driver is one of the transitions of the *)
(* state diagram, and prev_state is the state left by the latest           *)
(* transition.                                                             *)
(***************************************************************************)
C31_Transitions ==
  { <<"DISCONNECTED", "CONNECTING">>, <<"DISCONNECTED", "TRANSFER_DONE">>,
    <<"CONNECTING", "TRANSFER_READY">>, <<"CONNECTING", "DISCONNECTED">>,
    <<"TRANSFER_READY", "SELECT_OBJECT">>,
    <<"PREPARING_DATA_OBJECT", "SELECT_OBJECT">>,
    <<"SELECT_OBJECT", "EXECUTE_OBJECT">>, <<"SELECT_OBJECT", "TRANSFERRING_OBJECT">>,
    <<"SELECT_OBJECT", "CREATE_OBJECT">>,
    <<"CREATE_OBJECT", "TRANSFERRING_OBJECT">>,
    <<"TRANSFERRING_OBJECT", "VALIDATE_OBJECT">>,
    <<"VALIDATE_OBJECT", "EXECUTE_OBJECT">>, <<"VALIDATE_OBJECT", "CREATE_OBJECT">>,
    <<"EXECUTE_OBJECT", "PREPARING_DATA_OBJECT">>, <<"EXECUTE_OBJECT", "CREATE_OBJECT">>,
    <<"EXECUTE_OBJECT", "DISCONNECTED">> }

C31_Step ==
  /\ context'.state # context.state \/ context'.prev_state # context.prev_state =>
       /\ <<context.state, context'.state>> \in C31_Transitions
       /\ context'.prev_state = context.state
  /\ status' = "TRANSITIONED" /\ status # "TRANSITIONED" => context'.state # context.state

C31_PrevState ==
  /\ context.prev_state = "None" => context.state = "DISCONNECTED"
  /\ context.prev_state # "None" => <<context.prev_state, context.state>> \in C31_Transitions

C31_StateChanges == []C31_PrevState /\ [][C31_Step]_vars

\* the driver has gone back from EXECUTE_OBJECT to CREATE_OBJECT for the next object
C31_Witness ==
  /\ context.state = "CREATE_OBJECT" /\ context.prev_state = "EXECUTE_OBJECT"
  /\ status = "TRANSITIONED"


(***************************************************************************)
(* C32.  On every transition the loop of run() calls the exit hook of the  *)
(* state left once and then the entry hook of the new state once, before   *)
(* any handle of the new state; handle is dispatched only in a state whose *)
(* entry has run (or in the initial DISCONNECTED), and never after an      *)
(* entry hook returned COMPLETE.                                           *)
(***************************************************************************)
\* the loop is about to dispatch exit and entry, or entry is suspended
C32_InEntry ==
  \/ pc = "run" /\ status = "TRANSITIONED"
  \/ pc = "set_prn_value" /\ cont \in {"SelectObject.entry", "CreateObject.entry",
                                       "ValidateObject.entry", "TransferringObject.entry"}

C32_Step ==
  \* a hook that changes the state hands TRANSITIONED to the loop, or raises
  /\ context'.state # context.state =>
       \/ pc' = "run" /\ status' = "TRANSITIONED"
       \/ pc' = "returned"
  \* exit of the state left runs once, when entry is dispatched, and entry
  \* stays in its state and does not hand TRANSITIONED back
  /\ pc = "run" /\ status = "TRANSITIONED" /\ DriverStep =>
       /\ context'.state = context.state
       /\ context'.attempts =
            context.attempts + (IF context.prev_state = "TRANSFERRING_OBJECT" THEN 1 ELSE 0)
       /\ pc' = "run" => status' \in {"HANDLED", "COMPLETE"}
  /\ C32_InEntry /\ pc # "run" /\ DriverStep =>
       /\ context'.state = context.state
       /\ context'.attempts = context.attempts
       /\ pc' = "run" => status' = "HANDLED"
  \* handle is dispatched on INIT, HANDLED or IGNORED only
  /\ ~C32_InEntry /\ context'.state # context.state =>
       status \in {"INIT", "HANDLED", "IGNORED"}
  \* nothing is dispatched once the loop is left
  /\ pc = "returned" => pc' = "returned" /\ context' = context /\ status' = status

C32_Entered ==
  /\ status = "INIT" => context.state = "DISCONNECTED" /\ context.prev_state = "None"
  /\ status = "COMPLETE" => pc = "returned" /\ context.state = "TRANSFER_DONE"
  /\ status \notin {"INIT", "HANDLED", "IGNORED", "TRANSITIONED", "COMPLETE"} => FALSE

C32_Dispatch == []C32_Entered /\ [][C32_Step]_vars

\* entry of VALIDATE_OBJECT has run after the exit of TRANSFERRING_OBJECT, and
\* handle is next
C32_Witness ==
  /\ context.state = "VALIDATE_OBJECT" /\ context.prev_state = "TRANSFERRING_OBJECT"
  /\ pc = "run" /\ status = "HANDLED"
  /\ context.attempts = 1
  /\ LastOp(ctl_log) = CRC_GET


(***************************************************************************)
(* C33.  Against a peer that notifies after every N-th packet written      *)
(* since the last RECEIPT_NOTIF_SET(N), the driver awaits a PRN after a    *)
(* packet exactly when the peer owes one: whenever it waits in get_prn a   *)
(* PRN is on its way or on the queue, whenever a PRN is on its way the     *)
(* driver waits for it, and none is left when VALIDATE_OBJECT is entered.  *)
(***************************************************************************)
C33_PrnOwed ==
  \/ \E i \in 1..Len(pending) : pending[i].prn
  \/ \E i \in 1..Len(context.responses) : context.responses[i].prn

C33_AwaitsIffOwed ==
  /\ pc = "get_prn" => C33_PrnOwed
  /\ C33_PrnOwed => pc = "get_prn"
  /\ context.state = "VALIDATE_OBJECT" => ~C33_PrnOwed


(***************************************************************************)
(* C34.  When OBJECT_SELECT in the DATA phase reports the whole image      *)
(* (offset = len(img_data), crc = crc32(img_data)), the driver goes to     *)
(* EXECUTE_OBJECT and, on the SUCCESS response to OBJECT_EXECUTE, pops the *)
(* image and moves to DISCONNECTED; it writes no OBJECT_CREATE and no      *)
(* packet and raises no error.                                             *)
(***************************************************************************)
\* the DATA phase since the image was found on the peer
C34_DataSkipped ==
  /\ context.obj_type = DATA
  /\ context.offset = Len(pkg[context.img].img_data)
  /\ Len(ctl_log) >= 2 /\ ctl_log[2].opcode = OBJECT_SELECT
  /\ Len(ctl_log) >= 3 => ctl_log[3].opcode = OBJECT_EXECUTE
  /\ \/ context.state = "EXECUTE_OBJECT" /\ context.prev_state = "SELECT_OBJECT"
     \/ Len(ctl_log) >= 3

C34_SelectStep ==
  /\ AtHandle("SELECT_OBJECT") /\ Takes
  /\ context.obj_type = DATA
  /\ ~Taken.prn /\ Taken.req_opcode = OBJECT_SELECT /\ Taken.status = SUCCESS
  /\ Taken.max_size >= 1
  /\ Taken.offset = Len(pkg[context.img].img_data)
  /\ Taken.crc = crc32(pkg[context.img].img_data, CRC_ZERO)
  => pc' = "run" /\ exc' = NoError /\ context'.state = "EXECUTE_OBJECT"

C34_ExecuteStep ==
  /\ AtHandle("EXECUTE_OBJECT") /\ Takes /\ C34_DataSkipped
  /\ context.prev_state = "SELECT_OBJECT"
  /\ ~Taken.prn /\ Taken.req_opcode = OBJECT_EXECUTE /\ Taken.status = SUCCESS
  => /\ pc' = "run" /\ exc' = NoError
     /\ context'.state = "DISCONNECTED"
     /\ context'.img_queue = Tail(context.img_queue)

C34_NothingWritten ==
  C34_DataSkipped =>
    /\ pkt_log = <<>>
    /\ ~HasOp(ctl_log, OBJECT_CREATE)

C34_DataAlreadySent ==
  [][C34_SelectStep]_vars /\ [][C34_ExecuteStep]_vars /\ []C34_NothingWritten


(***************************************************************************)
(* C35.  num_objects is computed by the handler of the first OBJECT_SELECT *)
(* response of a phase as ceil(len(payload) / max_size), it is 1 when      *)
(* 1 <= len(payload) <= max_size, later steps of the phase leave it alone, *)
(* and the computation raises no error whatever max_size a SUCCESS         *)
(* response reports.                                                       *)
(***************************************************************************)
C35_Payload ==
  IF context.obj_type = COMMAND THEN pkg[context.img].init_data
  ELSE pkg[context.img].img_data

\* the handler of SELECT_OBJECT takes a SUCCESS response to OBJECT_SELECT
C35_SelectTaken ==
  /\ AtHandle("SELECT_OBJECT") /\ Takes
  /\ ~Taken.prn /\ Taken.req_opcode = OBJECT_SELECT /\ Taken.status = SUCCESS

C35_FirstSelect ==
  C35_SelectTaken /\ context.num_objects = 0 =>
    /\ raised' # PyError("ZeroDivisionError")
    /\ context'.num_objects * Taken.max_size >= Len(C35_Payload)
    /\ (context'.num_objects - 1) * Taken.max_size < Len(C35_Payload)
    /\ 1 <= Len(C35_Payload) /\ Len(C35_Payload) <= Taken.max_size
         => context'.num_objects = 1

C35_Kept ==
  context'.num_objects # context.num_objects =>
    \/ C35_SelectTaken /\ context.num_objects = 0
    \/ context'.num_objects = 0 /\ context'.state = "SELECT_OBJECT"
         /\ context.state \in {"TRANSFER_READY", "PREPARING_DATA_OBJECT"}

C35_NumObjects == [][C35_FirstSelect]_vars /\ [][C35_Kept]_vars


(***************************************************************************)
(* C36.  The handlers of TRANSFER_READY and PREPARING_DATA_OBJECT set      *)
(* bytes_sent, local_crc, objects_sent, num_objects and attempts to 0, the *)
(* phase to COMMAND resp. DATA and txdata to the whole init_data resp.     *)
(* img_data of the image at the head of img_queue; they leave img_queue,   *)
(* prn, max_size and the response queue as they are and transition to      *)
(* SELECT_OBJECT.                                                          *)
(***************************************************************************)
C36_Head == pkg[context.img_queue[1]]

C36_Reset ==
  /\ context'.bytes_sent = 0 /\ context'.local_crc = CRC_ZERO
  /\ context'.objects_sent = 0 /\ context'.num_objects = 0
  /\ context'.attempts = 0

C36_Frame ==
  /\ context'.img_queue = context.img_queue
  /\ context'.prn = context.prn
  /\ context'.max_size = context.max_size
  /\ context'.responses = context.responses

C36_ToSelect ==
  /\ pc' = "run" /\ status' = "TRANSITIONED" /\ exc' = NoError
  /\ context'.state = "SELECT_OBJECT" /\ context'.prev_state = context.state

C36_Step ==
  /\ AtHandle("TRANSFER_READY") /\ DriverStep =>
       /\ C36_Reset /\ C36_Frame /\ C36_ToSelect
       /\ context'.obj_type = COMMAND
       /\ context'.txdata = C36_Head.init_data
  /\ AtHandle("PREPARING_DATA_OBJECT") /\ DriverStep =>
       /\ C36_Reset /\ C36_Frame /\ C36_ToSelect
       /\ context'.obj_type = DATA
       /\ context'.txdata = C36_Head.img_data

C36_PhaseStart == [][C36_Step]_vars

\* the DATA phase of a second image has started: the counters of the phases
\* before it were not 0
C36_Witness ==
  /\ status = "TRANSITIONED" /\ context.state = "SELECT_OBJECT"
  /\ context.prev_state = "PREPARING_DATA_OBJECT"
  /\ context.img = "application" /\ Len(context.img_queue) = 1
  /\ context.max_size > 0
  /\ context.bytes_sent = 0 /\ context.attempts = 0 /\ context.objects_sent = 0
  /\ context.txdata = pkg["application"].img_data


(***************************************************************************)
(* C37.  No OBJECT_SELECT, OBJECT_CREATE or packet of the DATA phase is    *)
(* written before the OBJECT_EXECUTE of the image's COMMAND object was     *)
(* answered with SUCCESS on the current connection, and the transfer of    *)
(* every image starts with OBJECT_SELECT(COMMAND) after a fresh scan and   *)
(* connect.  Stated step by step: the DATA phase is entered only by the    *)
(* handler of PREPARING_DATA_OBJECT, that state only by the handler of     *)
(* EXECUTE_OBJECT taking the SUCCESS response to the COMMAND object's      *)
(* OBJECT_EXECUTE, a new connection or a popped image leads back through   *)
(* CONNECTING and TRANSFER_READY to the COMMAND phase, and in each phase   *)
(* the first object request is the OBJECT_SELECT of that phase.            *)
(***************************************************************************)
C37_Transfer ==
  {"SELECT_OBJECT", "CREATE_OBJECT", "TRANSFERRING_OBJECT", "VALIDATE_OBJECT",
   "EXECUTE_OBJECT"}

\* a request or packet of the DATA phase is written
C37_DataWrite ==
  \/ /\ Len(ctl_log') = Len(ctl_log) + 1
     /\ ctl_log'[Len(ctl_log')].opcode \in {OBJECT_SELECT, OBJECT_CREATE}
     /\ ctl_log'[Len(ctl_log')].object_type = DATA
  \/ /\ Len(pkt_log') = Len(pkt_log) + 1
     /\ context.obj_type = DATA

\* the SUCCESS response to the OBJECT_EXECUTE of the COMMAND object is taken
C37_CommandExecuted ==
  /\ AtHandle("EXECUTE_OBJECT") /\ Takes
  /\ context.obj_type = COMMAND
  /\ LastOp(ctl_log) = OBJECT_EXECUTE
  /\ ~Taken.prn /\ Taken.req_opcode = OBJECT_EXECUTE /\ Taken.status = SUCCESS
  /\ context'.client = context.client /\ clients[context.client].connected

C37_Step ==
  /\ C37_DataWrite =>
       context.obj_type = DATA /\ context.state \in C37_Transfer
  /\ context'.obj_type = DATA /\ context.obj_type # DATA =>
       AtHandle("PREPARING_DATA_OBJECT") /\ context'.client = context.client
  /\ context'.state = "PREPARING_DATA_OBJECT" /\ context.state # "PREPARING_DATA_OBJECT" =>
       C37_CommandExecuted
  /\ context'.client # context.client =>
       /\ AtEntry("CONNECTING") /\ context.prev_state = "DISCONNECTED"
       /\ context'.client = Len(clients') /\ Len(clients') = Len(clients) + 1
  /\ context'.img_queue # context.img_queue =>
       /\ context'.img_queue = Tail(context.img_queue)
       /\ context'.state = "DISCONNECTED"
  /\ context.state \in {"DISCONNECTED", "CONNECTING", "TRANSFER_READY"}
       /\ context'.state \in C37_Transfer =>
       /\ context.state = "TRANSFER_READY" /\ context'.state = "SELECT_OBJECT"
       /\ context'.obj_type = COMMAND
       /\ context'.img = Head(context.img_queue)
       /\ ctl_log' = <<>> /\ pkt_log' = <<>>

\* the first object request of a phase is its OBJECT_SELECT, and no packet is
\* written before it
C37_SelectFirst ==
  /\ \A i \in 1..Len(ctl_log) :
       ctl_log[i].opcode # RECEIPT_NOTIF_SET =>
         \E j \in 1..i :
           /\ ctl_log[j].opcode = OBJECT_SELECT
           /\ ctl_log[j].object_type = context.obj_type
           /\ \A h \in 1..(j - 1) : ctl_log[h].opcode = RECEIPT_NOTIF_SET
  /\ pkt_log # <<>> => HasOp(ctl_log, OBJECT_SELECT)

C37_CommandBeforeData == [][C37_Step]_vars /\ []C37_SelectFirst

\* the first packet of the DATA phase of the second image has been written
C37_Witness ==
  /\ context.obj_type = DATA /\ context.state = "TRANSFERRING_OBJECT"
  /\ Len(pkt_log) = 1
  /\ context.img = "application" /\ Len(context.img_queue) = 1
  /\ context.client = 2


(***************************************************************************)
(* C38.  While no connection has succeeded the scans stay bounded by       *)
(* MAX_ATTEMPTS: a CONNECTING attempt that finds the client not connected  *)
(* and returns to DISCONNECTED does not restart the count of scans, so the *)
(* count covers every scan made so far (at least one per client that was   *)
(* made) and FAILED_TO_CONNECT is raised when it reaches MAX_ATTEMPTS.     *)
(***************************************************************************)
C38_NeverConnected ==
  /\ pc = "run"
  /\ \A i \in 1..Len(clients) : ~clients[i].connected /\ clients[i].disconnects = 0

\* dispatch of the entry hook of DISCONNECTED after a failed connection attempt
C38_FailedConnect ==
  /\ AtEntry("DISCONNECTED") /\ context.prev_state = "CONNECTING"
  /\ C38_NeverConnected
  /\ DriverStep

C38_Step == C38_FailedConnect => cls'.search_attempts = cls.search_attempts

C38_ScansCounted ==
  C38_NeverConnected /\ context.state = "DISCONNECTED" /\ status # "TRANSITIONED" =>
    /\ cls.search_attempts >= Len(clients)
    /\ cls.search_attempts < MAX_ATTEMPTS

C38_ScansBounded == [][C38_Step]_vars /\ []C38_ScansCounted


(***************************************************************************)
(* C39.  In the legacy _dat_transfer a CRC_GET mismatch with retries left  *)
(* re-creates and re-sends the same chunk: the chunk created after the     *)
(* failed validation is byte-identical to the one that failed, the         *)
(* executed chunks, the current chunk and the rest of object_data make up  *)
(* the image with nothing skipped, the running crc the chunk is sent with  *)
(* covers the executed chunks only, and a chunk is transferred at most 3   *)
(* times.                                                                  *)
(***************************************************************************)
\* a chunk was created after a validation that failed
C39_Retrying ==
  /\ ~tx.returned /\ tx.state = "TRANSMITTING_RAW_DATA"
  /\ Len(tx.sent) > Len(tx.executed)

C39_SameChunk == C39_Retrying => tx.data_chunk = tx.sent[Len(tx.sent)]

C39_NothingSkipped ==
  ~tx.returned /\ tx.state \in {"TRANSMITTING_RAW_DATA", "VALIDATING_RAW_DATA"} =>
    Concat(tx.executed) \o tx.data_chunk \o tx.object_data = tx.image

C39_CrcOfExecuted ==
  ~tx.returned /\ tx.state = "TRANSMITTING_RAW_DATA" =>
    tx.crc = crc32(Concat(tx.executed), CRC_ZERO)

C39_AtMostThree == Len(tx.sent) - Len(tx.executed) <= 3

C39_RetryResends ==
  C39_SameChunk /\ C39_NothingSkipped /\ C39_CrcOfExecuted /\ C39_AtMostThree

=============================================================================
